---- MODULE Spec2Model ----
(***************************************************************************)
(* FlowForge: the graph execution engine (app/engine/runner.py,            *)
(* app/engine/registry.py, app/engine/models.py).                          *)
(*                                                                         *)
(* Python objects live in one process heap: a dict is a heap object and a  *)
(* dict-valued entry of another dict is a reference to it, so in-place     *)
(* mutation, aliasing and copy.deepcopy are what they are in the code.     *)
(* A str that the code parses (a condition key, split on ".") is a         *)
(* sequence of tokens with "." a token of its own; node names, tool names  *)
(* and registry keys, which the code only compares, are TLA+ strings.      *)
(***************************************************************************)
EXTENDS Integers, Sequences, FiniteSets, TLC

VARIABLES
    heap,            \* object id -> dict (the process heap)
    NODE_REGISTRY,   \* registry.py: name -> node function
    TOOL_REGISTRY,   \* registry.py: name -> tool function
    active,          \* the run_graph calls of this behaviour
    graph,           \* per call: the Graph argument
    initial_state,   \* per call: the caller's initial_state object (a heap id)
    max_steps,       \* per call: the max_steps argument
    pc,              \* per call: "ready", "loop", "await", "returned", "raised"
    awaiting,        \* per call: the iteration that stands at the await of line 131
    state,           \* per call: local `state` (a heap id)
    logs,            \* per call: local `logs`
    current,         \* per call: local `current`
    steps,           \* per call: local `steps`
    error,           \* per call: the exception that left run_graph
    result,          \* per call: the (state, logs) pair returned
    trace,           \* per call: lookups and invocations performed, in order
    RUNS,            \* main.py: run_id -> GraphRun
    handler,         \* per run: where the endpoint or task that owns it stands
    seen,            \* the last response of GET /graph/state/{run_id}
    last_call        \* the last call of the registry's functions and its outcome

vars == <<heap, NODE_REGISTRY, TOOL_REGISTRY, active, graph, initial_state,
          max_steps, pc, awaiting, state, logs, current, steps, error, result,
          trace, RUNS, handler, seen, last_call>>

\* the run store and its clients (main.py)
store == <<RUNS, handler, seen>>

-----------------------------------------------------------------------------
(* Python values *)

\* None where the code holds an Optional[str] that is only compared
None == "<None>"

\* None where the code holds an Optional[str] that is parsed (condition_key)
NoneKey == <<"<None>">>

NoneV == [t |-> "none", n |-> 0]

BoolV(b) == [t |-> "bool", n |-> IF b THEN 1 ELSE 0]

IntV(i) == [t |-> "int", n |-> i]

\* the i-th string of an ordered list of strings
StrV(i) == [t |-> "str", n |-> i]

\* a dict, by reference to its heap object
RefV(o) == [t |-> "ref", n |-> o]

IsNumber(v) == v.t \in {"bool", "int"}

\* Python ==  on scalars: bool is an int (True == 1); None and str equal only themselves.
\* Two references are equal here only when they are the same object.
ScalarEq(a, b) ==
    IF IsNumber(a) /\ IsNumber(b) THEN a.n = b.n
    ELSE a.t = b.t /\ a.n = b.n

\* Python <, >, <=, >= are defined between numbers and between strings only
Orderable(a, b) ==
    \/ IsNumber(a) /\ IsNumber(b)
    \/ a.t = "str" /\ b.t = "str"

(* dict *)

EmptyDict == [k \in {} |-> NoneV]

\* d.get(k)
DictGet(d, k) == IF k \in DOMAIN d THEN d[k] ELSE NoneV

\* d[k] = v
DictSet(d, k, v) == [x \in DOMAIN d \cup {k} |-> IF x = k THEN v ELSE d[x]]

\* d.pop(k, None)
DictDel(d, k) == [x \in DOMAIN d \ {k} |-> d[x]]

\* the heap objects a dict's entries refer to
RefsOf(d) == {d[k].n : k \in {x \in DOMAIN d : d[x].t = "ref"}}

NewId(h) == CHOOSE i \in 1..(Cardinality(DOMAIN h) + 1) : i \notin DOMAIN h

\* A value detached from the heap: a dict is held by its content. This is what
\* copy.deepcopy makes of a value nobody else refers to.
Snap(h, v) ==
    [t |-> IF v.t = "ref" THEN "dict" ELSE v.t,
     n |-> IF v.t = "ref" THEN 0 ELSE v.n,
     d |-> IF v.t = "ref" THEN h[v.n] ELSE EmptyDict]

NoneSnap == [t |-> "none", n |-> 0, d |-> EmptyDict]

\* Python == on detached values: dicts are equal when they have the same keys
\* with equal values
SnapEq(a, b) ==
    IF a.t = "dict" /\ b.t = "dict"
    THEN /\ DOMAIN a.d = DOMAIN b.d
         /\ \A k \in DOMAIN a.d : ScalarEq(a.d[k], b.d[k])
    ELSE a.t # "dict" /\ b.t # "dict" /\ ScalarEq(a, b)

\* copy.deepcopy(state) held by value: every entry detached
SnapDict(h, o) == [k \in DOMAIN h[o] |-> Snap(h, h[o][k])]

\* no copy: the object itself
deepcopy_none(h, o) == [heap |-> h, id |-> o]

\* copy.copy(o): a new dict whose dict-valued entries are the old objects
deepcopy_shallow(h, o) ==
    LET top == NewId(h)
    IN  [heap |-> [i \in DOMAIN h \cup {top} |-> IF i = top THEN h[o] ELSE h[i]],
         id |-> top]

\* copy.deepcopy(o) as new heap objects: a new dict whose dict-valued entries
\* are new copies too (one copy per object referred to). Yields the new heap
\* and the id of the copy.
deepcopy(h, o) ==
    LET olds == RefsOf(h[o])
        top  == NewId(h)
        free == (1..(Cardinality(DOMAIN h) + Cardinality(olds) + 1)) \ (DOMAIN h \cup {top})
        m    == CHOOSE f \in [olds -> free] : \A x, y \in olds : f[x] = f[y] => x = y
        news == {m[x] : x \in olds}
        inv(i) == CHOOSE x \in olds : m[x] = i
        d    == [k \in DOMAIN h[o] |->
                   IF h[o][k].t = "ref" THEN RefV(m[h[o][k].n]) ELSE h[o][k]]
    IN [heap |-> [i \in DOMAIN h \cup {top} \cup news |->
                    IF i = top THEN d
                    ELSE IF i \in news THEN h[inv(i)]
                    ELSE h[i]],
        id |-> top]

-----------------------------------------------------------------------------
(* runner.py: condition evaluation *)

\* key.split("."): the parts between the "." tokens; a key without "." is one part
RECURSIVE split(_)
split(s) ==
    IF \A i \in 1..Len(s) : s[i] # "." THEN <<s>>
    ELSE LET i == CHOOSE j \in 1..Len(s) :
                      s[j] = "." /\ \A m \in 1..(j - 1) : s[m] # "."
         IN <<SubSeq(s, 1, i - 1)>> \o split(SubSeq(s, i + 1, Len(s)))

\* the loop without the return of None: a value that is not a dict is kept
RECURSIVE walk_keep(_, _, _)
walk_keep(h, value, parts) ==
    IF parts = <<>> THEN value
    ELSE IF value.t # "ref" THEN value
    ELSE walk_keep(h, DictGet(h[value.n], Head(parts)), Tail(parts))

\* the loop of _get_from_state over the parts
RECURSIVE walk(_, _, _)
walk(h, value, parts) ==
    IF parts = <<>> THEN value
    ELSE IF value.t # "ref" THEN NoneV
    ELSE walk(h, DictGet(h[value.n], Head(parts)), Tail(parts))

_get_from_state(h, st, key) == walk(h, RefV(st), split(key))

\* _compare with == and != taken for each other
_compare_swapped(lhs, op, rhs) ==
    LET yes(b) == [raised |-> FALSE, value |-> b]
        ord(b) == IF Orderable(lhs, rhs) THEN yes(b)
                  ELSE [raised |-> TRUE, value |-> FALSE]
    IN  IF op = None THEN yes(TRUE)
        ELSE IF op = "==" THEN yes(~ScalarEq(lhs, rhs))
        ELSE IF op = "!=" THEN yes(ScalarEq(lhs, rhs))
        ELSE IF op = "<"  THEN ord(Orderable(lhs, rhs) /\ lhs.n < rhs.n)
        ELSE IF op = ">"  THEN ord(Orderable(lhs, rhs) /\ lhs.n > rhs.n)
        ELSE IF op = "<=" THEN ord(Orderable(lhs, rhs) /\ lhs.n <= rhs.n)
        ELSE IF op = ">=" THEN ord(Orderable(lhs, rhs) /\ lhs.n >= rhs.n)
        ELSE yes(FALSE)

\* _compare: [raised, value]; an ordering comparison Python does not define
\* raises TypeError. rhs is a scalar.
_compare(lhs, op, rhs) ==
    LET yes(b) == [raised |-> FALSE, value |-> b]
        ord(b) == IF Orderable(lhs, rhs) THEN yes(b)
                  ELSE [raised |-> TRUE, value |-> FALSE]
    IN  IF op = None THEN yes(TRUE)
        ELSE IF op = "==" THEN yes(ScalarEq(lhs, rhs))
        ELSE IF op = "!=" THEN yes(~ScalarEq(lhs, rhs))
        ELSE IF op = "<"  THEN ord(Orderable(lhs, rhs) /\ lhs.n < rhs.n)
        ELSE IF op = ">"  THEN ord(Orderable(lhs, rhs) /\ lhs.n > rhs.n)
        ELSE IF op = "<=" THEN ord(Orderable(lhs, rhs) /\ lhs.n <= rhs.n)
        ELSE IF op = ">=" THEN ord(Orderable(lhs, rhs) /\ lhs.n >= rhs.n)
        ELSE yes(FALSE)

\* the sentinel target
END == "__end__"

\* `if edge.condition_key:` a str is true unless it is empty
Truthy(key) == key # NoneKey /\ key # <<>>

\* for_edge without the sentinel: the target is returned whatever it is
RECURSIVE for_edge_noend(_, _, _)
for_edge_noend(candidates, h, st) ==
    IF candidates = <<>> THEN [raised |-> FALSE, next |-> None]
    ELSE LET edge == Head(candidates)
             c == _compare(_get_from_state(h, st, edge.condition_key),
                           edge.operator, edge.value)
         IN  IF Truthy(edge.condition_key) /\ c.raised
                 THEN [raised |-> TRUE, next |-> None]
             ELSE IF Truthy(edge.condition_key) /\ ~c.value
                 THEN for_edge_noend(Tail(candidates), h, st)
             ELSE [raised |-> FALSE, next |-> edge.target]

\* the for loop of choose_next_node over the candidates: [raised, next]
RECURSIVE for_edge(_, _, _)
for_edge(candidates, h, st) ==
    IF candidates = <<>> THEN [raised |-> FALSE, next |-> None]
    ELSE LET edge == Head(candidates)
             c == _compare(_get_from_state(h, st, edge.condition_key),
                           edge.operator, edge.value)
         IN  IF Truthy(edge.condition_key) /\ c.raised
                 THEN [raised |-> TRUE, next |-> None]
             ELSE IF Truthy(edge.condition_key) /\ ~c.value
                 THEN for_edge(Tail(candidates), h, st)
             ELSE IF edge.target = END
                 THEN [raised |-> FALSE, next |-> None]
             ELSE [raised |-> FALSE, next |-> edge.target]

\* Candidates without the filter on the source
Candidates_any(g, current_node) == g.edges

\* lines 60-62: the edges from current_node, in declared order
Candidates(g, current_node) ==
    SelectSeq(g.edges, LAMBDA e : e.source = current_node)

choose_next_node(g, current_node, h, st) ==
    for_edge(Candidates(g, current_node), h, st)

\* compute_diff(before, after): before is the detached deep copy, after the
\* live state object; an entry's "after" is the live value itself
compute_diff(h, before, st) ==
    LET after    == h[st]
        all_keys == DOMAIN before \cup DOMAIN after
        get(k)   == IF k \in DOMAIN before THEN before[k] ELSE NoneSnap
        diffKeys == {k \in all_keys : ~SnapEq(get(k), Snap(h, DictGet(after, k)))}
    IN  [k \in diffKeys |-> [before |-> get(k), after |-> DictGet(after, k)]]

-----------------------------------------------------------------------------
(* exceptions: the type, the message template and the name the message carries *)

NoExc == [type |-> "", msg |-> "", name |-> ""]

Exc(type, msg, name) == [type |-> type, msg |-> msg, name |-> name]

-----------------------------------------------------------------------------
(* step implementations: the functions a caller registers. Each receives the *)
(* state object and mutates it in place and/or returns a dict, or raises.    *)

K(token) == <<token>>

\* state.get(k, 0) + 1 for an int entry
Incremented(d, k) == IntV((IF k \in DOMAIN d THEN d[k].n ELSE 0) + 1)

-----------------------------------------------------------------------------
(* Python float: an IEEE 754 double. The doubles met here are non-negative,  *)
(* below 2^23 and multiples of 2^-60; <<a, b, c>> is the double              *)
(* (a * 2^60 + b * 2^30 + c) * 2^-60. Every operation is the exact result    *)
(* rounded to nearest, ties to even, at 53 significant binary digits.        *)

Limb == 2^30

Mantissa == 53

\* float(k) for a small non-negative int
FromInt(k) == <<k, 0, 0>>

\* the exact sum
FPlus(x, y) ==
    LET c == x[3] + y[3]
        b == x[2] + y[2] + c \div Limb
    IN  <<x[1] + y[1] + b \div Limb, b % Limb, c % Limb>>

\* the exact difference x - y, for x >= y
FMinus(x, y) ==
    LET c == x[3] - y[3]
        b == x[2] - y[2] - (IF c < 0 THEN 1 ELSE 0)
    IN  <<x[1] - y[1] - (IF b < 0 THEN 1 ELSE 0), (b + Limb) % Limb, (c + Limb) % Limb>>

\* x >= y
FGeq(x, y) ==
    \/ x[1] > y[1]
    \/ x[1] = y[1] /\ x[2] > y[2]
    \/ x[1] = y[1] /\ x[2] = y[2] /\ x[3] >= y[3]

\* the number of binary digits of a * 2^60 + b * 2^30 + c
BitLen(x) ==
    LET len(v) == CHOOSE n \in 0..30 : v < 2^n /\ (n = 0 \/ v >= 2^(n - 1))
    IN  IF x[1] > 0 THEN 60 + len(x[1])
        ELSE IF x[2] > 0 THEN 30 + len(x[2])
        ELSE len(x[3])

\* x rounded to Mantissa significant digits, to nearest, ties to even;
\* inexact tells that x was cut from a longer number
FRound(x, inexact) ==
    LET drop == BitLen(x) - Mantissa
    IN  IF drop <= 0 THEN x
        ELSE LET unit == 2^drop
                 low  == x[3] % unit
                 half == unit \div 2
                 down == <<x[1], x[2], x[3] - low>>
                 odd  == (x[3] \div unit) % 2 = 1
             IN  IF low > half \/ (low = half /\ (inexact \/ odd))
                 THEN FPlus(down, <<0, 0, unit>>) ELSE down

\* x / d for a small positive int d: long division, ten binary digits at a time
FDivBy(x, d) ==
    LET dg(v, i) == (v \div (1024 ^ i)) % 1024
        t1 == (x[1] % d) * 1024 + dg(x[2], 2)
        t2 == (t1 % d) * 1024 + dg(x[2], 1)
        t3 == (t2 % d) * 1024 + dg(x[2], 0)
        t4 == (t3 % d) * 1024 + dg(x[3], 2)
        t5 == (t4 % d) * 1024 + dg(x[3], 1)
        t6 == (t5 % d) * 1024 + dg(x[3], 0)
    IN  FRound(<<x[1] \div d,
                 (t1 \div d) * 1024 * 1024 + (t2 \div d) * 1024 + (t3 \div d),
                 (t4 \div d) * 1024 * 1024 + (t5 \div d) * 1024 + (t6 \div d)>>,
               t6 % d # 0)

\* n / d for ints, and the literal that is written n/d in decimal (0.05, 0.8)
FDiv(n, d) == FDivBy(FromInt(n), d)

\* the exact product x * k
RECURSIVE FTimes(_, _)
FTimes(x, k) == IF k = 0 THEN FromInt(0) ELSE FPlus(x, FTimes(x, k - 1))

\* x * k for an int k
FMul(x, k) == FRound(FTimes(x, k), FALSE)

\* x + y
FAdd(x, y) == FRound(FPlus(x, y), FALSE)

\* x - y, for x >= y
FSub(x, y) == FRound(FMinus(x, y), FALSE)

\* min(x, y), max(x, y)
FMin(x, y) == IF FGeq(y, x) THEN x ELSE y

FMax(x, y) == IF FGeq(x, y) THEN x ELSE y

-----------------------------------------------------------------------------
(* Python str held by its characters, and the str methods the nodes use.     *)
(* The texts met here have "\n" as their only line boundary.                 *)

Char(s, i) == SubSeq(s, i, i)

IsSpace(c) == c \in {" ", "\t", "\n", "\r"}

\* the k-th smallest element of a set of numbers
Nth(S, k) == CHOOSE x \in S : Cardinality({y \in S : y < x}) = k - 1

\* s.startswith(p)
startswith(s, p) == Len(s) >= Len(p) /\ SubSeq(s, 1, Len(p)) = p

\* sub in s
contains(s, sub) ==
    \E i \in 1..(Len(s) - Len(sub) + 1) : SubSeq(s, i, i + Len(sub) - 1) = sub

\* s.strip()
strip(s) ==
    LET solid == {i \in 1..Len(s) : ~IsSpace(Char(s, i))}
    IN  IF solid = {} THEN ""
        ELSE SubSeq(s, Nth(solid, 1), Nth(solid, Cardinality(solid)))

\* s.split(sep, 1)[0] and s.split(sep, 1)[1], for a sep that s contains
split_0(s, sep) ==
    LET at == {i \in 1..(Len(s) - Len(sep) + 1) : SubSeq(s, i, i + Len(sep) - 1) = sep}
    IN  SubSeq(s, 1, Nth(at, 1) - 1)

split_1(s, sep) ==
    LET at == {i \in 1..(Len(s) - Len(sep) + 1) : SubSeq(s, i, i + Len(sep) - 1) = sep}
    IN  SubSeq(s, Nth(at, 1) + Len(sep), Len(s))

\* s.splitlines(): the lines that "\n" ends, and the rest when it is not empty
splitlines(s) ==
    LET nl == {i \in 1..Len(s) : Char(s, i) = "\n"}
        n  == Cardinality(nl) + (IF Len(s) > 0 /\ Char(s, Len(s)) # "\n" THEN 1 ELSE 0)
        from(j) == IF j = 1 THEN 1 ELSE Nth(nl, j - 1) + 1
        to(j)   == IF j <= Cardinality(nl) THEN Nth(nl, j) - 1 ELSE Len(s)
    IN  [j \in 1..n |-> SubSeq(s, from(j), to(j))]

\* s.split(): the words between runs of whitespace
split_ws(s) ==
    LET starts == {i \in 1..Len(s) :
                     ~IsSpace(Char(s, i)) /\ (i = 1 \/ IsSpace(Char(s, i - 1)))}
        ends   == {i \in 1..Len(s) :
                     ~IsSpace(Char(s, i)) /\ (i = Len(s) \/ IsSpace(Char(s, i + 1)))}
    IN  [k \in 1..Cardinality(starts) |-> SubSeq(s, Nth(starts, k), Nth(ends, k))]

\* seq.count(x)
count(seq, x) == Cardinality({i \in 1..Len(seq) : seq[i] = x})

\* list(dict.fromkeys(seq)): the distinct elements, in the order of their
\* first occurrence
fromkeys(seq) ==
    LET first == {i \in 1..Len(seq) : \A j \in 1..(i - 1) : seq[j] # seq[i]}
    IN  [k \in 1..Cardinality(first) |-> seq[Nth(first, k)]]

\* sum(seq) for ints
RECURSIVE sum(_)
sum(seq) == IF seq = <<>> THEN 0 ELSE Head(seq) + sum(Tail(seq))

-----------------------------------------------------------------------------
(* nodes/code_review.py: the built-in step implementations.                  *)
(* A float is held by its double, a str by its characters. A list, and the   *)
(* dict complexity_report, are built anew by the node that assigns them and  *)
(* never changed afterwards: they are held by their content (a dict by its   *)
(* items in insertion order). state["metrics"] is changed in place: it is a  *)
(* heap object.                                                              *)

FloatV(x) == [t |-> "float", n |-> x]

TextV(s) == [t |-> "text", n |-> s]

ListV(items) == [t |-> "list", n |-> items]

ItemsV(items) == [t |-> "items", n |-> items]

\* d.get(k, default)
dict_get(d, k, default) == IF k \in DOMAIN d THEN d[k] ELSE default

\* float(v): [raised, exc, value]
float(v) ==
    CASE v.t = "float"          -> [raised |-> FALSE, exc |-> NoExc, value |-> v.n]
      [] v.t \in {"int", "bool"} -> [raised |-> FALSE, exc |-> NoExc, value |-> FromInt(v.n)]
      [] v.t \in {"text", "str"} ->
            [raised |-> TRUE, value |-> FromInt(0),
             exc |-> Exc("ValueError", "could not convert string to float", "float")]
      [] OTHER ->
            [raised |-> TRUE, value |-> FromInt(0),
             exc |-> Exc("TypeError", "float() argument must be a string or a real number",
                         "float")]

\* the outcomes of a node: it returned the state object, or it raised
Returned(h, st) == [raised |-> FALSE, exc |-> NoExc, ret |-> RefV(st), heap |-> h]

Raised(h, type, msg, name) ==
    [raised |-> TRUE, exc |-> Exc(type, msg, name), ret |-> NoneV, heap |-> h]

\* state[k] = v
SetItem(h, st, k, v) == [h EXCEPT ![st] = DictSet(@, k, v)]

\* lines 6-7
_get_code(h, st) == dict_get(h[st], K("code"), TextV(""))

\* state.setdefault("metrics", {}): [heap, value]
setdefault_metrics(h, st) ==
    IF K("metrics") \in DOMAIN h[st] THEN [heap |-> h, value |-> h[st][K("metrics")]]
    ELSE LET o == NewId(h)
         IN  [heap  |-> [i \in DOMAIN h \cup {o} |->
                           IF i = o THEN EmptyDict
                           ELSE IF i = st THEN DictSet(h[st], K("metrics"), RefV(o))
                           ELSE h[i]],
              value |-> RefV(o)]

\* lines 10-32
extract_functions(h, st) ==
    LET code == _get_code(h, st)
    IN  IF code.t # "text"
        THEN Raised(h, "AttributeError", "object has no attribute", "splitlines")
        ELSE LET isdef(line) ==
                     LET stripped == strip(line)
                     IN  /\ startswith(stripped, "def ")
                         /\ contains(stripped, "(")
                         /\ contains(stripped, ":")
                 defs == SelectSeq(splitlines(code.n), isdef)
                 name(line) == strip(split_0(split_1(strip(line), "def "), "("))
                 functions == [i \in 1..Len(defs) |->
                                 [name |-> name(defs[i]), line |-> defs[i]]]
             IN  Returned(SetItem(h, st, K("functions"), ListV(functions)), st)

\* the double avg_complexity / 20.0 clamped and inverted (lines 71-72)
baseline(avg_complexity) ==
    LET normalized == FMin(FDivBy(avg_complexity, 20), FromInt(1))
    IN  FMax(FromInt(0), FSub(FromInt(1), normalized))

\* lines 35-76
check_complexity(h, st) ==
    LET code == _get_code(h, st)
        functions == dict_get(h[st], K("functions"), ListV(<<>>))
    IN  IF code.t # "text"
        THEN Raised(h, "AttributeError", "object has no attribute", "splitlines")
        ELSE IF functions.t # "list"
        THEN Raised(h, "TypeError", "functions is not a list of dicts", "functions")
        ELSE
        LET lines == splitlines(code.n)
            signal(line) ==
                LET tokens == split_ws(strip(line))
                IN  count(tokens, "for") + count(tokens, "while") + count(tokens, "if")
            score == 1 + sum([i \in 1..Len(lines) |-> signal(lines[i])])
            names == fromkeys([i \in 1..Len(functions.n) |-> functions.n[i].name])
            complexity_report ==
                [i \in 1..Len(names) |-> <<names[i], [complexity_score |-> score]>>]
            h1 == SetItem(h, st, K("complexity_report"), ItemsV(complexity_report))
            avg_complexity ==
                IF Len(names) > 0
                THEN FDiv(sum([i \in 1..Len(names) |-> complexity_report[i][2].complexity_score]),
                          Len(names))
                ELSE FromInt(0)
            quality_score == baseline(avg_complexity)
            m == setdefault_metrics(h1, st)
        IN  IF m.value.t # "ref"
            THEN Raised(m.heap, "TypeError", "object does not support item assignment",
                        "metrics")
            ELSE Returned([m.heap EXCEPT ![m.value.n] =
                              DictSet(@, K("quality_score"), FloatV(quality_score))], st)

\* lines 79-100; an issue is held by its line number and the text after it
detect_smells_tool(h, st) ==
    LET code == _get_code(h, st)
    IN  IF code.t # "text"
        THEN Raised(h, "AttributeError", "object has no attribute", "splitlines")
        ELSE LET lines == splitlines(code.n)
                 found(idx, kind) ==
                     LET line == lines[idx]
                     IN  CASE kind = 1 -> Len(line) > 80
                           [] kind = 2 -> contains(line, "TODO")
                           [] kind = 3 -> /\ startswith(strip(line), "if ")
                                          /\ startswith(line, "                        ")
                 text(kind) ==
                     CASE kind = 1 -> "line longer than 80 characters"
                       [] kind = 2 -> "TODO comment present"
                       [] kind = 3 -> "deeply nested if-statement"
                 hits == {n \in 1..(3 * Len(lines)) :
                            found((n - 1) \div 3 + 1, ((n - 1) % 3) + 1)}
                 issues == [k \in 1..Cardinality(hits) |->
                              LET n == Nth(hits, k)
                              IN  [line |-> (n - 1) \div 3 + 1, text |-> text(((n - 1) % 3) + 1)]]
             IN  Returned(SetItem(h, st, K("issues"), ListV(issues)), st)

\* the suggestion made for a function of that score, "" when none (lines 117-126)
for_complexity(fn_name, score) ==
    IF score > 15 THEN [about |-> fn_name, score |-> score,
                        text |-> "has high complexity"]
    ELSE IF score > 8 THEN [about |-> fn_name, score |-> score,
                            text |-> "is moderately complex"]
    ELSE [about |-> "", score |-> 0, text |-> ""]

\* the suggestions made for an issue, in order (lines 130-143)
for_issue(issue) ==
    LET say(marker, text) ==
            IF contains(issue.text, marker)
            THEN <<[about |-> "", score |-> 0, text |-> text]>> ELSE <<>>
    IN  say("80 characters", "Some lines are longer than 80 characters.")
        \o say("TODO", "Remove or resolve TODO comments before merging this code.")
        \o say("deeply nested", "Deeply nested conditionals detected.")

RECURSIVE concat(_)
concat(seqs) == IF seqs = <<>> THEN <<>> ELSE Head(seqs) \o concat(Tail(seqs))

\* lines 103-153
suggest_improvements(h, st) ==
    LET complexity_report == dict_get(h[st], K("complexity_report"), ItemsV(<<>>))
        issues == dict_get(h[st], K("issues"), ListV(<<>>))
        m == setdefault_metrics(h, st)
    IN  IF m.value.t # "ref"
        THEN Raised(m.heap, "AttributeError", "object has no attribute", "get")
        ELSE
        LET metrics == m.heap[m.value.n]
            quality_score == float(dict_get(metrics, K("quality_score"), FloatV(FromInt(0))))
        IN  IF quality_score.raised
            THEN [raised |-> TRUE, exc |-> quality_score.exc, ret |-> NoneV, heap |-> m.heap]
            ELSE IF complexity_report.t # "items"
            THEN Raised(m.heap, "AttributeError", "object has no attribute", "items")
            ELSE IF issues.t # "list"
            THEN Raised(m.heap, "TypeError", "issues is not a list of str", "issues")
            ELSE
            LET made == [i \in 1..Len(complexity_report.n) |->
                           for_complexity(complexity_report.n[i][1],
                                          complexity_report.n[i][2].complexity_score)]
                suggestions ==
                    fromkeys(SelectSeq(made, LAMBDA s : s.text # "")
                             \o concat([i \in 1..Len(issues.n) |-> for_issue(issues.n[i])]))
                h1 == SetItem(m.heap, st, K("suggestions"), ListV(suggestions))
                n == IF Len(suggestions) > 1 THEN Len(suggestions) ELSE 1
                bump == FMul(FDiv(5, 100), n)
                bumped == FMin(FromInt(1), FAdd(quality_score.value, bump))
            IN  Returned([h1 EXCEPT ![m.value.n] =
                             DictSet(@, K("quality_score"), FloatV(bumped))], st)

\* lines 156-166
evaluate_quality(h, st) ==
    LET m == setdefault_metrics(h, st)
    IN  IF m.value.t # "ref"
        THEN Raised(m.heap, "AttributeError", "object has no attribute", "get")
        ELSE
        LET metrics == m.heap[m.value.n]
            quality_score == float(dict_get(metrics, K("quality_score"), FloatV(FromInt(0))))
            threshold == float(dict_get(m.heap[st], K("threshold"), FloatV(FDiv(8, 10))))
        IN  IF quality_score.raised
            THEN [raised |-> TRUE, exc |-> quality_score.exc, ret |-> NoneV, heap |-> m.heap]
            ELSE IF threshold.raised
            THEN [raised |-> TRUE, exc |-> threshold.exc, ret |-> NoneV, heap |-> m.heap]
            ELSE Returned(SetItem(m.heap, st, K("meets_quality"),
                                  BoolV(FGeq(quality_score.value, threshold.value))), st)

-----------------------------------------------------------------------------
(* step implementations by name *)

\* the outcome of fn(state): [raised, exc, ret, heap]; ret is None or a dict
Body(fn, h, st) ==
    LET d == h[st]
        put(k, v)  == [h EXCEPT ![st] = DictSet(d, k, v)]
        ok(h2, r)  == [raised |-> FALSE, exc |-> NoExc, ret |-> r, heap |-> h2]
    IN  CASE fn = "noop"     -> ok(h, NoneV)
          \* state["n"] = state.get("n", 0) + 1
          [] fn = "count"    -> ok(put(K("n"), Incremented(d, K("n"))), NoneV)
          \* state["x"] = 1; return state
          [] fn = "set_x"    -> ok(put(K("x"), IntV(1)), RefV(st))
          \* state["y"] = None
          [] fn = "put_none" -> ok(put(K("y"), NoneV), NoneV)
          \* state.pop("x", None); return state
          [] fn = "drop_x"   -> ok([h EXCEPT ![st] = DictDel(d, K("x"))], RefV(st))
          \* new = dict(state); new["x"] = 2; return new
          [] fn = "fresh"    -> LET o == NewId(h)
                                IN ok(h @@ (o :> DictSet(d, K("x"), IntV(2))), RefV(o))
          \* state["x"] = True; raise RuntimeError
          [] fn = "boom"     -> [raised |-> TRUE,
                                 exc |-> Exc("RuntimeError", "step failed", fn),
                                 ret |-> NoneV,
                                 heap |-> put(K("x"), BoolV(TRUE))]
          \* state.setdefault("m", {})["q"] = state.get("n", 0) + 1
          [] fn = "nest"     ->
                IF K("m") \in DOMAIN d /\ d[K("m")].t = "ref"
                THEN ok([h EXCEPT ![d[K("m")].n] =
                            DictSet(@, K("q"), Incremented(d, K("n")))], NoneV)
                ELSE LET o == NewId(h)
                     IN ok([i \in DOMAIN h \cup {o} |->
                              IF i = o THEN DictSet(EmptyDict, K("q"), Incremented(d, K("n")))
                              ELSE IF i = st THEN
                                  IF K("m") \in DOMAIN d THEN d ELSE DictSet(d, K("m"), RefV(o))
                              ELSE h[i]], NoneV)
          \* state["n"] = state.get("n", 0) + 1
          \* state["meets_quality"] = state["n"] >= 2; return state
          [] fn = "refine"   ->
                LET n2 == Incremented(d, K("n"))
                IN ok([h EXCEPT ![st] =
                         DictSet(DictSet(d, K("n"), n2), K("meets_quality"),
                                 BoolV(n2.n >= 2))], RefV(st))
          \* nodes/code_review.py
          [] fn = "extract_functions"    -> extract_functions(h, st)
          [] fn = "check_complexity"     -> check_complexity(h, st)
          [] fn = "detect_smells_tool"   -> detect_smells_tool(h, st)
          [] fn = "suggest_improvements" -> suggest_improvements(h, st)
          [] fn = "evaluate_quality"     -> evaluate_quality(h, st)

-----------------------------------------------------------------------------
(* registry.py *)

\* get_node(name) against NODE_REGISTRY, get_tool(name) against TOOL_REGISTRY:
\* [raised, exc, fn]
get_node(reg, name) ==
    IF name \notin DOMAIN reg
    THEN [raised |-> TRUE, fn |-> None,
          exc |-> Exc("KeyError", "Node function is not registered", name)]
    ELSE [raised |-> FALSE, fn |-> reg[name], exc |-> NoExc]

get_tool(reg, name) ==
    IF name \notin DOMAIN reg
    THEN [raised |-> TRUE, fn |-> None,
          exc |-> Exc("KeyError", "Tool is not registered", name)]
    ELSE [raised |-> FALSE, fn |-> reg[name], exc |-> NoExc]

\* call_maybe_async that catches what the function raises and keeps the state
call_maybe_async_swallow(fn, h, st) ==
    LET res == Body(fn, h, st)
    IN  [raised |-> FALSE,
         exc    |-> NoExc,
         state  |-> IF res.raised \/ res.ret = NoneV THEN st ELSE res.ret.n,
         heap   |-> res.heap]

\* call_maybe_async that keeps the state it was given whatever fn returns
call_maybe_async_keep(fn, h, st) ==
    LET res == Body(fn, h, st)
    IN  [raised |-> res.raised, exc |-> res.exc, state |-> st, heap |-> res.heap]

\* asyncio.iscoroutinefunction(fn): the step implementations written with
\* `async def`, which suspend before they touch the state
iscoroutinefunction(fn) == fn \in {"put_none", "fresh"}

\* asyncio.iscoroutine(fn(state)): the plain functions that hand back the
\* coroutine of an async function
iscoroutine(fn) == fn \in {"drop_x"}

\* await of the coroutine of fn(state): its body runs to its end on the state
Await(fn, h, st) == Body(fn, h, st)

\* lines 46-48: `result is None` keeps the state object the function was
\* given. [raised, exc, state, heap]
result_or_state(res, st) ==
    [raised |-> res.raised,
     exc    |-> res.exc,
     state  |-> IF res.ret = NoneV THEN st ELSE res.ret.n,
     heap   |-> res.heap]

\* call_maybe_async(fn, state): a coroutine function is called and awaited
\* (line 40); any other function is called (line 42) and what it returns is
\* awaited when it is a coroutine (lines 43-44). [raised, exc, state, heap]
call_maybe_async(fn, h, st) ==
    result_or_state(IF iscoroutinefunction(fn) THEN Await(fn, h, st)
                    ELSE IF iscoroutine(fn) THEN Await(fn, h, st)
                    ELSE Body(fn, h, st),
                    st)

\* the state the registry's functions do not touch
rest == <<heap, active, graph, initial_state, max_steps, pc, awaiting, state, logs,
          current, steps, error, result, trace, RUNS, handler, seen>>

\* register_node that keeps the function a name already has (dict.setdefault)
register_node_keep(name, fn) ==
    /\ NODE_REGISTRY' = IF name \in DOMAIN NODE_REGISTRY THEN NODE_REGISTRY
                        ELSE (name :> fn) @@ NODE_REGISTRY
    /\ last_call' = [op |-> "register_node", key |-> name, fn |-> fn, exc |-> NoExc]
    /\ UNCHANGED <<TOOL_REGISTRY, rest>>

\* lines 14-15: NODE_REGISTRY[name] = fn
register_node(name, fn) ==
    /\ NODE_REGISTRY' = (name :> fn) @@ NODE_REGISTRY
    /\ last_call' = [op |-> "register_node", key |-> name, fn |-> fn, exc |-> NoExc]
    /\ UNCHANGED <<TOOL_REGISTRY, rest>>

\* lines 18-19: TOOL_REGISTRY[name] = fn
register_tool(name, fn) ==
    /\ TOOL_REGISTRY' = (name :> fn) @@ TOOL_REGISTRY
    /\ last_call' = [op |-> "register_tool", key |-> name, fn |-> fn, exc |-> NoExc]
    /\ UNCHANGED <<NODE_REGISTRY, rest>>

\* a call of get_node(name) or get_tool(name), with what it returned or raised
resolve(op, name) ==
    /\ op \in {"get_node", "get_tool"}
    /\ LET out == IF op = "get_node" THEN get_node(NODE_REGISTRY, name)
                  ELSE get_tool(TOOL_REGISTRY, name)
       IN  last_call' = [op |-> op, key |-> name, fn |-> out.fn, exc |-> out.exc]
    /\ UNCHANGED <<NODE_REGISTRY, TOOL_REGISTRY, rest>>

-----------------------------------------------------------------------------
(* runner.py: execute_node *)

COMPUTATION == "computation"

TOOL == "tool"

\* what the call looked up and invoked, in order
Ev(ev, ns, key) == [ev |-> ev, ns |-> ns, key |-> key]

\* lines 101-102: the outcome c of call_maybe_async(fn, state), with what
\* the call looked up and invoked
called(c, fn, evs) ==
    [raised |-> c.raised, exc |-> c.exc, state |-> c.state,
     heap |-> c.heap, events |-> evs \o <<Ev("invoke", "fn", fn)>>]

\* execute_node that asks the tool namespace for the node's name
execute_node_byname(node_cfg, nodeReg, toolReg, h, st) ==
    LET failed(e, evs) ==
            [raised |-> TRUE, exc |-> e, state |-> st, heap |-> h, events |-> evs]
    IN  IF node_cfg.type = COMPUTATION
        THEN LET g == get_node(nodeReg, node_cfg.name)
                 evs == <<Ev("resolve", "node", node_cfg.name)>>
             IN  IF g.raised THEN failed(g.exc, evs)
                 ELSE called(call_maybe_async(g.fn, h, st), g.fn, evs)
        ELSE IF node_cfg.tool_name = None \/ node_cfg.tool_name = ""
             THEN failed(Exc("ValueError", "Tool node missing 'tool_name'",
                             node_cfg.name), <<>>)
             ELSE LET g == get_tool(toolReg, node_cfg.name)
                      evs == <<Ev("resolve", "tool", node_cfg.name)>>
                  IN  IF g.raised THEN failed(g.exc, evs)
                      ELSE called(call_maybe_async(g.fn, h, st), g.fn, evs)

\* lines 90-102: [raised, exc, state, heap, events]
execute_node(node_cfg, nodeReg, toolReg, h, st) ==
    LET failed(e, evs) ==
            [raised |-> TRUE, exc |-> e, state |-> st, heap |-> h, events |-> evs]
    IN  IF node_cfg.type = COMPUTATION
        THEN LET g == get_node(nodeReg, node_cfg.name)
                 evs == <<Ev("resolve", "node", node_cfg.name)>>
             IN  IF g.raised THEN failed(g.exc, evs)
                 ELSE called(call_maybe_async(g.fn, h, st), g.fn, evs)
        ELSE IF node_cfg.tool_name = None \/ node_cfg.tool_name = ""
             THEN failed(Exc("ValueError", "Tool node missing 'tool_name'",
                             node_cfg.name), <<>>)
             ELSE LET g == get_tool(toolReg, node_cfg.tool_name)
                      evs == <<Ev("resolve", "tool", node_cfg.tool_name)>>
                  IN  IF g.raised THEN failed(g.exc, evs)
                      ELSE called(call_maybe_async(g.fn, h, st), g.fn, evs)

-----------------------------------------------------------------------------
(* models.py *)

NodeConfig(name, type, tool_name, description) ==
    [name |-> name, type |-> type, tool_name |-> tool_name,
     description |-> description]

EdgeConfig(source, target, condition_key, operator, value) ==
    [source |-> source, target |-> target, condition_key |-> condition_key,
     operator |-> operator, value |-> value]

Graph(entrypoint, nodes, edges) ==
    [entrypoint |-> entrypoint, nodes |-> nodes, edges |-> edges]

StepLog(node, state_diff, info) ==
    [node |-> node, state_diff |-> state_diff, info |-> info]

\* GraphRun: state is a reference to a dict, error an Optional[str]
GraphRun(id, status, st, log, err) ==
    [id |-> id, status |-> status, state |-> st, logs |-> log, error |-> err]

-----------------------------------------------------------------------------
(* runner.py: run_graph, one call per element of active *)

RunIds == {1, 2}

NoResult == [returned |-> FALSE, state |-> 0, logs |-> <<>>]

\* the while condition without the step budget
LoopCondition_nobudget(cur, stp, mx) == cur # None

\* the while condition off by one
LoopCondition_le(cur, stp, mx) == cur # None /\ stp <= mx

\* line 123: the while condition
LoopCondition(cur, stp, mx) == cur # None /\ stp < mx

\* resolve_current whose error names the entrypoint
resolve_current_ep(g, cur) ==
    IF cur \notin DOMAIN g.nodes
    THEN [raised |-> TRUE, node_cfg |-> NodeConfig(None, None, None, None),
          exc |-> Exc("KeyError", "Node not found in graph", g.entrypoint)]
    ELSE [raised |-> FALSE, node_cfg |-> g.nodes[cur], exc |-> NoExc]

\* lines 124-127: `current` resolved in graph.nodes: [raised, exc, node_cfg]
resolve_current(g, cur) ==
    IF cur \notin DOMAIN g.nodes
    THEN [raised |-> TRUE, node_cfg |-> NodeConfig(None, None, None, None),
          exc |-> Exc("KeyError", "Node not found in graph", cur)]
    ELSE [raised |-> FALSE, node_cfg |-> g.nodes[cur], exc |-> NoExc]

\* lines 118-121: the working copy and the locals
Call(r) ==
    /\ r \in active
    /\ pc[r] = "ready"
    /\ LET c == deepcopy(heap, initial_state[r])
       IN  /\ heap' = c.heap
           /\ state' = [state EXCEPT ![r] = c.id]
    /\ logs' = [logs EXCEPT ![r] = <<>>]
    /\ current' = [current EXCEPT ![r] = graph[r].entrypoint]
    /\ steps' = [steps EXCEPT ![r] = 0]
    /\ pc' = [pc EXCEPT ![r] = "loop"]
    /\ UNCHANGED <<NODE_REGISTRY, TOOL_REGISTRY, active, graph, initial_state,
                   max_steps, awaiting, error, result, trace, store, last_call>>

\* an exception leaves run_graph: the locals are lost with the frame
Raise(r, exc) ==
    /\ pc' = [pc EXCEPT ![r] = "raised"]
    /\ error' = [error EXCEPT ![r] = exc]

\* lines 145-146: the record was appended; nx is what choose_next_node gave
\* on the new state
Advance(r, nx) ==
    IF nx.raised
    THEN /\ Raise(r, Exc("TypeError", "not supported between instances", current[r]))
         /\ UNCHANGED <<current, steps>>
    ELSE /\ current' = [current EXCEPT ![r] = nx.next]
         /\ steps' = [steps EXCEPT ![r] = @ + 1]
         /\ pc' = [pc EXCEPT ![r] = "loop"]
         /\ UNCHANGED error

\* lines 131-146: execute_node was called on node_cfg with outcome ex; before
\* is the copy of the state taken ahead of the call
Executed(r, node_cfg, before, ex, looked) ==
    /\ heap' = ex.heap
    /\ trace' = [trace EXCEPT ![r] = @ \o looked \o ex.events]
    /\ IF ex.raised
       THEN /\ Raise(r, ex.exc)
            /\ UNCHANGED <<state, logs, current, steps>>
       ELSE /\ state' = [state EXCEPT ![r] = ex.state]
            /\ logs' = [logs EXCEPT ![r] =
                          Append(@, StepLog(current[r],
                                            compute_diff(ex.heap, before, ex.state),
                                            node_cfg.description))]
            /\ Advance(r, choose_next_node(graph[r], current[r], ex.heap, ex.state))

\* no iteration stands at the await
NoFrame ==
    [on |-> FALSE, node_cfg |-> NodeConfig(None, None, None, None),
     before |-> EmptyDict, fn |-> None]

\* the locals of the iteration that live across the await of line 131
Frame(node_cfg, before, fn) ==
    [on |-> TRUE, node_cfg |-> node_cfg, before |-> before, fn |-> fn]

\* registry.py lines 40 and 44: the function that was invoked is one whose
\* await hands control to the event loop
Suspended(evs) ==
    /\ evs # <<>>
    /\ evs[Len(evs)].ev = "invoke"
    /\ (iscoroutinefunction(evs[Len(evs)].key) \/ iscoroutine(evs[Len(evs)].key))

\* lines 129-131 and registry.py line 40 or 44: the function was looked up
\* and invoked, and run_graph waits for it with its locals as they were
Suspend(r, node_cfg, before, evs) ==
    /\ pc' = [pc EXCEPT ![r] = "await"]
    /\ awaiting' = [awaiting EXCEPT ![r] = Frame(node_cfg, before, evs[Len(evs)].key)]
    /\ trace' = [trace EXCEPT ![r] = @ \o evs]
    /\ UNCHANGED <<heap, state, logs, current, steps, error>>

\* line 131: execute_node was called on node_cfg; ex is its outcome when the
\* function runs to its end without a suspension
Dispatched(r, node_cfg, before, ex, looked) ==
    IF Suspended(ex.events)
    THEN Suspend(r, node_cfg, before, looked \o ex.events)
    ELSE /\ Executed(r, node_cfg, before, ex, looked)
         /\ UNCHANGED awaiting

\* lines 123-146: one iteration of the while loop, up to the await of line 131
\* when the node function suspends there
LoopBody(r) ==
    /\ r \in active
    /\ pc[r] = "loop"
    /\ LoopCondition(current[r], steps[r], max_steps[r])
    /\ LET looked == <<Ev("lookup", "graph", current[r])>>
           found  == resolve_current(graph[r], current[r])
       IN  IF found.raised
           THEN /\ Raise(r, found.exc)
                /\ trace' = [trace EXCEPT ![r] = @ \o looked]
                /\ UNCHANGED <<heap, awaiting, state, logs, current, steps>>
           ELSE Dispatched(r, found.node_cfg, SnapDict(heap, state[r]),
                           execute_node(found.node_cfg, NODE_REGISTRY, TOOL_REGISTRY,
                                        heap, state[r]),
                           looked)
    /\ UNCHANGED <<NODE_REGISTRY, TOOL_REGISTRY, active, graph, initial_state,
                   max_steps, result, store, last_call>>

\* registry.py lines 40-48 and runner.py line 102: what the awaited function
\* gives when the event loop runs it on. [raised, exc, state, heap, events]
resumed(c) ==
    [raised |-> c.raised, exc |-> c.exc, state |-> c.state, heap |-> c.heap,
     events |-> <<>>]

\* lines 131-146: the awaited function runs on the state as it is now, and
\* the iteration goes on to its end
Resume(r) ==
    /\ r \in active
    /\ pc[r] = "await"
    /\ Executed(r, awaiting[r].node_cfg, awaiting[r].before,
                resumed(call_maybe_async(awaiting[r].fn, heap, state[r])), <<>>)
    /\ awaiting' = [awaiting EXCEPT ![r] = NoFrame]
    /\ UNCHANGED <<NODE_REGISTRY, TOOL_REGISTRY, active, graph, initial_state,
                   max_steps, result, store, last_call>>

\* line 148: the loop condition is false, return state, logs
Return(r) ==
    /\ r \in active
    /\ pc[r] = "loop"
    /\ ~LoopCondition(current[r], steps[r], max_steps[r])
    /\ pc' = [pc EXCEPT ![r] = "returned"]
    /\ result' = [result EXCEPT ![r] =
                    [returned |-> TRUE, state |-> state[r], logs |-> logs[r]]]
    /\ UNCHANGED <<heap, NODE_REGISTRY, TOOL_REGISTRY, active, graph, initial_state,
                   max_steps, awaiting, state, logs, current, steps, error, trace,
                   store, last_call>>

Next == \E r \in RunIds : Call(r) \/ LoopBody(r) \/ Resume(r) \/ Return(r)

\* the steps of calls whose node functions are all plain functions: no
\* iteration stands at the await
NextPlain == \E r \in RunIds : Call(r) \/ LoopBody(r) \/ Return(r)

\* no run record, no request
NoRuns == [r \in {} |-> None]

\* nothing was asked yet
NoResponse == [id |-> 0, status |-> "", state |-> EmptyDict, logs |-> <<>>,
               error |-> None]

\* no call of the registry's functions yet
NoCall == [op |-> "", key |-> "", fn |-> None, exc |-> NoExc]

NoStore ==
    /\ RUNS = NoRuns
    /\ handler = [r \in RunIds |-> "none"]
    /\ seen = NoResponse
    /\ last_call = NoCall

-----------------------------------------------------------------------------
(* the graphs, registries and initial states the calls are made with *)

MaxEdges == 3

MaxBudget == 3

\* run_graph's default max_steps
DefaultMaxSteps == 1000

Uncond(source, target) == EdgeConfig(source, target, NoneKey, None, NoneV)

Comp(name) == NodeConfig(name, COMPUTATION, None, None)

\* a graph's nodes keyed by name, as create_graph builds node_map
NodeMap(cfgs) == [name \in {c.name : c \in cfgs} |->
                    CHOOSE c \in cfgs : c.name = name]

\* Nodes of every kind: computation nodes bound to each step implementation,
\* N bound to none; tool nodes with a tool name of their own (T), with none
\* (U), with an empty one (V) and with an unregistered one (W).
Nodes ==
    NodeMap({Comp("A"), Comp("B"), Comp("P"), Comp("D"), Comp("F"), Comp("X"),
             Comp("M"), Comp("N"),
             NodeConfig("T", TOOL, "tool_t", "a tool"),
             NodeConfig("U", TOOL, None, None),
             NodeConfig("V", TOOL, "", None),
             NodeConfig("W", TOOL, "ghost", None)})

\* Each namespace also holds, under the names the other namespace is asked
\* for, a function that raises or a function where the right one is missing.
NodeFns ==
    ("A" :> "count") @@ ("B" :> "set_x") @@ ("P" :> "put_none") @@
    ("D" :> "drop_x") @@ ("F" :> "fresh") @@ ("X" :> "boom") @@ ("M" :> "nest") @@
    ("T" :> "boom") @@ ("tool_t" :> "boom") @@ ("ghost" :> "noop")

ToolFns ==
    ("tool_t" :> "set_x") @@ ("A" :> "boom") @@ ("N" :> "noop")

EdgePool ==
    { Uncond("A", "B"),
      Uncond("B", "A"),
      EdgeConfig("A", END, K("x"), "==", IntV(1)),
      EdgeConfig("A", "A", K("n"), "<", IntV(2)),
      EdgeConfig("A", "Z", <<"m", ".", "q">>, ">=", IntV(1)),
      EdgeConfig("A", "T", K("x"), None, IntV(5)),
      EdgeConfig("B", END, <<>>, "==", IntV(3)),
      EdgeConfig("A", "M", K("x"), "!=", IntV(1)) }

EdgeLists == UNION {[1..n -> EdgePool] : n \in 0..MaxEdges}

\* Z names no node
Entrypoints == DOMAIN Nodes \cup {"Z"}

\* the caller's initial state is object 1
InitHeaps ==
    { (1 :> EmptyDict),
      (1 :> ((K("x") :> IntV(1)) @@ (K("n") :> IntV(0)) @@ (K("m") :> RefV(2))))
         @@ (2 :> (K("q") :> IntV(1))),
      (1 :> ((K("x") :> NoneV) @@ (K("n") :> BoolV(TRUE)) @@ (K("y") :> StrV(1)))) }

Scenario(g, h, budget, nodeReg, toolReg) ==
    [graph |-> g, heap |-> h, max_steps |-> budget,
     nodeReg |-> nodeReg, toolReg |-> toolReg]

\* every edge list over the pool, entered at A
GenericScenarios ==
    { Scenario(Graph("A", Nodes, es), h, b, NodeFns, ToolFns) :
        es \in EdgeLists, h \in InitHeaps, b \in 0..MaxBudget }

\* a chain through the other nodes
ChainEdges ==
    <<Uncond("P", "D"), Uncond("D", "F"), Uncond("F", "M"), Uncond("M", "T"),
      Uncond("T", "M"), Uncond("B", "X"), Uncond("X", "A")>>

\* every entrypoint, with no edges and with the chain
ProbeScenarios ==
    { Scenario(Graph(ep, Nodes, es), h, b, NodeFns, ToolFns) :
        ep \in Entrypoints, es \in {<<>>, ChainEdges}, h \in InitHeaps,
        b \in 0..(MaxBudget + 2) }

\* a two-node cycle with no exit condition, run with a budget of 10
CycleScenario ==
    Scenario(Graph("A", Nodes, <<Uncond("A", "B"), Uncond("B", "A")>>),
             (1 :> EmptyDict), 10, NodeFns, ToolFns)

\* A -> B -> C -> D -> E, E back to D while meets_quality == False and to
\* __end__ when True; D flips meets_quality on its second pass
LoopScenario ==
    Scenario(Graph("A",
                   NodeMap({Comp("A"), Comp("B"), Comp("C"), Comp("D"), Comp("E")}),
                   <<Uncond("A", "B"), Uncond("B", "C"), Uncond("C", "D"),
                     Uncond("D", "E"),
                     EdgeConfig("E", "D", K("meets_quality"), "==", BoolV(FALSE)),
                     EdgeConfig("E", END, K("meets_quality"), "==", BoolV(TRUE))>>),
             (1 :> (K("meets_quality") :> BoolV(FALSE))),
             DefaultMaxSteps,
             ("A" :> "noop") @@ ("B" :> "noop") @@ ("C" :> "noop") @@
             ("D" :> "refine") @@ ("E" :> "noop"),
             ToolFns)

\* a state with a nested dict, run through nodes that change the top level and
\* the nested dict in place, ending in a node that raises or in the budget
NestScenarios ==
    { Scenario(Graph("A", Nodes, <<Uncond("A", "M"), Uncond("M", "X")>>),
               h, b, NodeFns, ToolFns) :
        h \in {x \in InitHeaps : K("m") \in DOMAIN x[1]}, b \in 2..MaxBudget }
    \cup
    { Scenario(Graph("M", Nodes, <<Uncond("M", "A"), Uncond("A", "M")>>),
               h, b, NodeFns, ToolFns) :
        h \in InitHeaps, b \in 2..MaxBudget }

Scenarios == GenericScenarios \cup ProbeScenarios \cup NestScenarios
                \cup {CycleScenario, LoopScenario}

Init ==
    \E sc \in Scenarios :
        /\ heap = sc.heap
        /\ NODE_REGISTRY = sc.nodeReg
        /\ TOOL_REGISTRY = sc.toolReg
        /\ active = {1}
        /\ graph = [r \in RunIds |-> sc.graph]
        /\ initial_state = [r \in RunIds |-> 1]
        /\ max_steps = [r \in RunIds |-> sc.max_steps]
        /\ pc = [r \in RunIds |-> "ready"]
        /\ state = [r \in RunIds |-> 0]
        /\ logs = [r \in RunIds |-> <<>>]
        /\ current = [r \in RunIds |-> None]
        /\ steps = [r \in RunIds |-> 0]
        /\ error = [r \in RunIds |-> NoExc]
        /\ result = [r \in RunIds |-> NoResult]
        /\ trace = [r \in RunIds |-> <<>>]
        /\ awaiting = [r \in RunIds |-> NoFrame]
        /\ NoStore

Spec == Init /\ [][Next]_vars

-----------------------------------------------------------------------------
(* several calls of run_graph in one process, interleaved at the steps of   *)
(* their loops (the points where a call awaits a node)                      *)

\* two caller objects: 1 (with the nested dict 2) and 3
RunsHeap ==
    (1 :> ((K("x") :> IntV(1)) @@ (K("n") :> IntV(0)) @@ (K("m") :> RefV(2))))
      @@ (2 :> (K("q") :> IntV(1)))
      @@ (3 :> ((K("x") :> NoneV) @@ (K("y") :> StrV(1))))

\* a cycle, a cycle through the node that mutates the nested dict, a chain
\* through the nodes that replace the state, and a chain into a failure
RunsGraphs ==
    { Graph("A", Nodes, <<Uncond("A", "B"), Uncond("B", "A")>>),
      Graph("M", Nodes, <<Uncond("M", "A"), Uncond("A", "M")>>),
      Graph("F", Nodes, <<Uncond("F", "M"), Uncond("M", "D"), Uncond("D", "T")>>),
      Graph("B", Nodes, <<Uncond("B", "X")>>) }

InitRuns ==
    /\ heap = RunsHeap
    /\ NODE_REGISTRY = NodeFns
    /\ TOOL_REGISTRY = ToolFns
    /\ active = RunIds
    /\ graph \in [RunIds -> RunsGraphs]
    /\ initial_state \in [RunIds -> {1, 3}]
    /\ max_steps \in [RunIds -> 1..MaxBudget]
    /\ pc = [r \in RunIds |-> "ready"]
    /\ state = [r \in RunIds |-> 0]
    /\ logs = [r \in RunIds |-> <<>>]
    /\ current = [r \in RunIds |-> None]
    /\ steps = [r \in RunIds |-> 0]
    /\ error = [r \in RunIds |-> NoExc]
    /\ result = [r \in RunIds |-> NoResult]
    /\ trace = [r \in RunIds |-> <<>>]
    /\ awaiting = [r \in RunIds |-> NoFrame]
    /\ NoStore

SpecRuns == InitRuns /\ [][Next]_vars

(* one call of run_graph driven to its end *)

MaxLiveEdges == 1

\* the scenarios of Init whose edge list is one of the fixed ones (the chain,
\* the cycles, the loop) or a list of at most MaxLiveEdges edges of the pool
InitLive ==
    /\ Init
    /\ \/ graph[1].edges \notin EdgeLists
       \/ graph[1] = CycleScenario.graph
       \/ Len(graph[1].edges) <= MaxLiveEdges

\* the steps of the coroutine of run r
Step(r) == Call(r) \/ LoopBody(r) \/ Resume(r) \/ Return(r)

\* The event loop resumes a coroutine that can run, and every node invocation
\* returns or raises: a run that can take a step takes it.
SpecLive == InitLive /\ [][Next]_vars /\ \A r \in RunIds : WF_vars(Step(r))

-----------------------------------------------------------------------------
(* the built-in code review workflow, run end to end on the built-in nodes   *)

\* registry.py lines 51-68: register_builtins
BuiltinNodes ==
    ("extract_functions" :> "extract_functions") @@
    ("check_complexity" :> "check_complexity") @@
    ("suggest_improvements" :> "suggest_improvements") @@
    ("evaluate_quality" :> "evaluate_quality")

BuiltinTools == ("detect_smells" :> "detect_smells_tool")

\* main.py lines 51-123
create_code_review_template_graph ==
    Graph("extract_functions",
          NodeMap({NodeConfig("extract_functions", COMPUTATION, None,
                              "Extract functions from raw code text."),
                   NodeConfig("check_complexity", COMPUTATION, None,
                              "Estimate complexity per function."),
                   NodeConfig("detect_smells", TOOL, "detect_smells",
                              "Tool node: detect simple static code smells."),
                   NodeConfig("suggest_improvements", COMPUTATION, None,
                              "Suggest improvements and simulate auto-refactor."),
                   NodeConfig("evaluate_quality", COMPUTATION, None,
                              "Evaluate whether quality_score meets threshold.")}),
          <<Uncond("extract_functions", "check_complexity"),
            Uncond("check_complexity", "detect_smells"),
            Uncond("detect_smells", "suggest_improvements"),
            Uncond("suggest_improvements", "evaluate_quality"),
            EdgeConfig("evaluate_quality", "suggest_improvements",
                       K("meets_quality"), "==", BoolV(FALSE)),
            EdgeConfig("evaluate_quality", END,
                       K("meets_quality"), "==", BoolV(TRUE))>>)

\* the step budget the review runs are given
MaxReviewSteps == 50

\* one function, one branch
CodeSmall == "def f(x):\n    if x:\n        return 1\n"

\* one function, ten branches
CodeModerate ==
    "def g(a):\n    if a:\n    if a:\n    if a:\n    if a:\n    if a:\n    if a:\n    if a:\n    if a:\n    if a:\n    for b in a:\n        pass\n"

\* five branches, a TODO and a line of more than 80 characters
CodeSmells ==
    "def h(a):\n    # TODO tidy\n    while a:\n        if a: a = a - 1\n        if a: a = a - 1\n        if a: a = a - 1\n    for b in range(a): total = (a + b) * (a - b) + (a * b) - (a + b) * (a - b) + (a * b) - a - b\n"

\* two functions, eighteen branches, every smell
CodeHigh ==
    "def p(a):\n  if a:\n  if a:\n  if a:\n  if a:\n  if a:\n  if a:\n  if a:\n  if a:\n  if a:\n  def q(b):  # TODO split\n  while b:\n  while b:\n  while b:\n  while b:\n  for c in b:\n  for c in b:\n  for c in b:\n  for c in b: value = (b + c) * (b - c) + (b * c) - (b + c) * (b - c) + (b * c) - b - c\n                        if b: pass\n"

\* state["code"]: absent, a text, or a value that is not a str
ReviewCodes ==
    {NoneV, TextV(""), TextV(CodeSmall), TextV(CodeModerate), TextV(CodeSmells),
     TextV(CodeHigh), IntV(5)}

\* state["threshold"]: absent, a float, an int, or a value float() rejects
ReviewThresholds ==
    {NoneV, FloatV(FDiv(95, 100)), FloatV(FDiv(1, 2)), IntV(1), IntV(0), IntV(2),
     TextV("high")}

\* state["metrics"]: absent, an empty dict, a dict with a score, not a dict
ReviewMetrics == {"absent", "empty", "scored", "int"}

\* the caller's initial state (object 1); an absent entry is NoneV above
ReviewHeap(code, threshold, metrics) ==
    LET entry(k, v) == IF v = NoneV THEN EmptyDict ELSE (K(k) :> v)
        top == entry("code", code) @@ entry("threshold", threshold)
    IN  CASE metrics = "absent" -> (1 :> top)
          [] metrics = "empty"  -> (1 :> (top @@ (K("metrics") :> RefV(2)))) @@ (2 :> EmptyDict)
          [] metrics = "scored" ->
                (1 :> (top @@ (K("metrics") :> RefV(2))))
                   @@ (2 :> (K("quality_score") :> FloatV(FromInt(0))))
          [] metrics = "int"    -> (1 :> (top @@ (K("metrics") :> IntV(5))))

ReviewScenarios ==
    { Scenario(create_code_review_template_graph, ReviewHeap(c, t, m),
               MaxReviewSteps, BuiltinNodes, BuiltinTools) :
        c \in ReviewCodes, t \in ReviewThresholds, m \in ReviewMetrics }

InitReview ==
    \E sc \in ReviewScenarios :
        /\ heap = sc.heap
        /\ NODE_REGISTRY = sc.nodeReg
        /\ TOOL_REGISTRY = sc.toolReg
        /\ active = {1}
        /\ graph = [r \in RunIds |-> sc.graph]
        /\ initial_state = [r \in RunIds |-> 1]
        /\ max_steps = [r \in RunIds |-> sc.max_steps]
        /\ pc = [r \in RunIds |-> "ready"]
        /\ state = [r \in RunIds |-> 0]
        /\ logs = [r \in RunIds |-> <<>>]
        /\ current = [r \in RunIds |-> None]
        /\ steps = [r \in RunIds |-> 0]
        /\ error = [r \in RunIds |-> NoExc]
        /\ result = [r \in RunIds |-> NoResult]
        /\ trace = [r \in RunIds |-> <<>>]
        /\ awaiting = [r \in RunIds |-> NoFrame]
        /\ NoStore

SpecReview == InitReview /\ [][NextPlain]_vars

-----------------------------------------------------------------------------
(* runs over graphs whose edges leave A and B under every kind of condition *)

MaxPathEdges == 2

\* unconditional edges, an edge whose condition_key is the empty string, edges
\* whose condition holds in some states, and an edge whose comparison is not
\* defined when its left-hand side is absent
PathPool ==
    { Uncond("A", "B"),
      Uncond("B", "A"),
      EdgeConfig("A", "B", <<>>, "==", IntV(3)),
      EdgeConfig("A", END, K("x"), "==", IntV(1)),
      EdgeConfig("A", "A", K("n"), "<", IntV(2)),
      EdgeConfig("B", "M", <<"m", ".", "q">>, ">=", IntV(1)),
      Uncond("A", "F") }

PathLists == UNION {[1..n -> PathPool] : n \in 0..MaxPathEdges}

PathScenarios ==
    { Scenario(Graph("A", Nodes, es), h, b, NodeFns, ToolFns) :
        es \in PathLists, h \in InitHeaps, b \in 1..MaxBudget }

InitPaths ==
    \E sc \in PathScenarios :
        /\ heap = sc.heap
        /\ NODE_REGISTRY = sc.nodeReg
        /\ TOOL_REGISTRY = sc.toolReg
        /\ active = {1}
        /\ graph = [r \in RunIds |-> sc.graph]
        /\ initial_state = [r \in RunIds |-> 1]
        /\ max_steps = [r \in RunIds |-> sc.max_steps]
        /\ pc = [r \in RunIds |-> "ready"]
        /\ state = [r \in RunIds |-> 0]
        /\ logs = [r \in RunIds |-> <<>>]
        /\ current = [r \in RunIds |-> None]
        /\ steps = [r \in RunIds |-> 0]
        /\ error = [r \in RunIds |-> NoExc]
        /\ result = [r \in RunIds |-> NoResult]
        /\ trace = [r \in RunIds |-> <<>>]
        /\ awaiting = [r \in RunIds |-> NoFrame]
        /\ NoStore

SpecPaths == InitPaths /\ [][Next]_vars

-----------------------------------------------------------------------------
(* main.py: the run store. A request names a graph of GRAPHS (graph[r]) and  *)
(* carries an initial state (initial_state[r]); a request for an unknown     *)
(* graph_id is answered 404 before anything is created. run_id is a new      *)
(* uuid4. The endpoints and the background task are coroutines of one event  *)
(* loop: each action is the code between two awaits.                         *)

engine == <<heap, NODE_REGISTRY, TOOL_REGISTRY, graph, initial_state, max_steps,
            pc, awaiting, state, logs, current, steps, error, result, trace,
            last_call>>

\* str(exc): the text of the exception without its type; a KeyError shows the
\* repr of its argument
str(exc) ==
    LET text == exc.msg \o ": " \o exc.name
    IN  IF exc.type = "KeyError" THEN "'" \o text \o "'" ELSE text

\* lines 191-205 of run_graph_sync: the record is stored as running, then
\* run_graph is awaited
run_graph_sync(r) ==
    /\ handler[r] = "none" /\ r \notin DOMAIN RUNS
    /\ RUNS' = RUNS @@ (r :> GraphRun(r, "running", initial_state[r], <<>>, None))
    /\ handler' = [handler EXCEPT ![r] = "sync"]
    /\ active' = active \cup {r}
    /\ UNCHANGED <<engine, seen>>

\* lines 208-212: run_graph has returned
run_graph_sync_done(r) ==
    /\ handler[r] = "sync" /\ pc[r] = "returned"
    /\ RUNS' = [RUNS EXCEPT ![r].state = result[r].state,
                            ![r].logs = result[r].logs,
                            ![r].status = "completed"]
    /\ handler' = [handler EXCEPT ![r] = "done"]
    /\ UNCHANGED <<engine, active, seen>>

\* line 206: run_graph has raised; nothing catches it, the exception leaves
\* the endpoint
run_graph_sync_raise(r) ==
    /\ handler[r] = "sync" /\ pc[r] = "raised"
    /\ handler' = [handler EXCEPT ![r] = "error"]
    /\ UNCHANGED <<engine, active, RUNS, seen>>

\* run_graph_async: the record is stored as pending and the task is scheduled
run_graph_async(r) ==
    /\ handler[r] = "none" /\ r \notin DOMAIN RUNS
    /\ RUNS' = RUNS @@ (r :> GraphRun(r, "pending", initial_state[r], <<>>, None))
    /\ handler' = [handler EXCEPT ![r] = "queued"]
    /\ UNCHANGED <<engine, active, seen>>

\* lines 170-175 of _execute_graph_background: running, then run_graph is awaited
_execute_graph_background(r) ==
    /\ handler[r] = "queued"
    /\ RUNS' = [RUNS EXCEPT ![r].status = "running"]
    /\ handler' = [handler EXCEPT ![r] = "task"]
    /\ active' = active \cup {r}
    /\ UNCHANGED <<engine, seen>>

\* lines 176-178: run_graph has returned
_execute_graph_background_done(r) ==
    /\ handler[r] = "task" /\ pc[r] = "returned"
    /\ RUNS' = [RUNS EXCEPT ![r].state = result[r].state,
                            ![r].logs = result[r].logs,
                            ![r].status = "completed"]
    /\ handler' = [handler EXCEPT ![r] = "done"]
    /\ UNCHANGED <<engine, active, seen>>

\* the except clause that sets the error and leaves the status
_execute_graph_background_except_nostatus(r) ==
    /\ handler[r] = "task" /\ pc[r] = "raised"
    /\ RUNS' = [RUNS EXCEPT ![r].error = str(error[r])]
    /\ handler' = [handler EXCEPT ![r] = "done"]
    /\ UNCHANGED <<engine, active, seen>>

\* lines 179-181: run_graph has raised
_execute_graph_background_except(r) ==
    /\ handler[r] = "task" /\ pc[r] = "raised"
    /\ RUNS' = [RUNS EXCEPT ![r].status = "failed",
                            ![r].error = str(error[r])]
    /\ handler' = [handler EXCEPT ![r] = "done"]
    /\ UNCHANGED <<engine, active, seen>>

\* a GraphRun as the response shows it: the state and the logs by content
Serialized(h, run) ==
    [id |-> run.id, status |-> run.status, error |-> run.error,
     state |-> SnapDict(h, run.state),
     logs |-> [i \in 1..Len(run.logs) |->
                 [node |-> run.logs[i].node, info |-> run.logs[i].info,
                  state_diff |->
                     [k \in DOMAIN run.logs[i].state_diff |->
                        [before |-> run.logs[i].state_diff[k].before,
                         after  |-> Snap(h, run.logs[i].state_diff[k].after)]]]]]

\* get_graph_state: 404 for an unknown run_id, the record otherwise
get_graph_state(r) ==
    /\ seen' = IF r \notin DOMAIN RUNS
               THEN [NoResponse EXCEPT !.id = r, !.status = "404"]
               ELSE Serialized(heap, RUNS[r])
    /\ UNCHANGED <<engine, active, RUNS, handler>>

NextStore ==
    \E r \in RunIds :
        \/ run_graph_sync(r) \/ run_graph_sync_done(r) \/ run_graph_sync_raise(r)
        \/ run_graph_async(r) \/ _execute_graph_background(r)
        \/ _execute_graph_background_done(r) \/ _execute_graph_background_except(r)
        \/ get_graph_state(r)
        \/ Call(r) \/ LoopBody(r) \/ Resume(r) \/ Return(r)

\* graphs that end by themselves, normally or by each kind of error
StoreGraphs ==
    { Graph("A", Nodes, <<EdgeConfig("A", "A", K("n"), "<", IntV(2))>>),
      Graph("B", Nodes, <<Uncond("B", "X")>>),
      Graph("B", Nodes, <<Uncond("B", "Z")>>),
      Graph("A", Nodes, <<EdgeConfig("A", "B", K("y"), ">=", IntV(1))>>),
      Graph("F", Nodes, <<Uncond("F", "D")>>) }

\* the store is empty; two requests will come, each for one of the graphs and
\* with one of the initial states; the endpoints pass no max_steps
InitStore ==
    /\ heap = RunsHeap
    /\ NODE_REGISTRY = NodeFns
    /\ TOOL_REGISTRY = ToolFns
    /\ active = {}
    /\ graph \in [RunIds -> StoreGraphs]
    /\ initial_state \in [RunIds -> {1, 3}]
    /\ max_steps = [r \in RunIds |-> DefaultMaxSteps]
    /\ pc = [r \in RunIds |-> "ready"]
    /\ state = [r \in RunIds |-> 0]
    /\ logs = [r \in RunIds |-> <<>>]
    /\ current = [r \in RunIds |-> None]
    /\ steps = [r \in RunIds |-> 0]
    /\ error = [r \in RunIds |-> NoExc]
    /\ result = [r \in RunIds |-> NoResult]
    /\ trace = [r \in RunIds |-> <<>>]
    /\ awaiting = [r \in RunIds |-> NoFrame]
    /\ NoStore

SpecStore == InitStore /\ [][NextStore]_vars

-----------------------------------------------------------------------------
(* registry.py on its own: both registries start empty (lines 10-11) and are *)
(* filled, overwritten and asked in any order                                *)

\* lines 10-11: {}
NoFns == [k \in {} |-> None]

RegistryKeys == {"A", "tool_t"}

RegistryFns == {"noop", "count", "boom"}

NextRegistry ==
    \E name \in RegistryKeys :
        \/ \E fn \in RegistryFns : register_node(name, fn) \/ register_tool(name, fn)
        \/ \E op \in {"get_node", "get_tool"} : resolve(op, name)

InitRegistry ==
    /\ heap = (1 :> EmptyDict)
    /\ NODE_REGISTRY = NoFns
    /\ TOOL_REGISTRY = NoFns
    /\ active = {}
    /\ graph = [r \in RunIds |-> Graph("A", Nodes, <<>>)]
    /\ initial_state = [r \in RunIds |-> 1]
    /\ max_steps = [r \in RunIds |-> DefaultMaxSteps]
    /\ pc = [r \in RunIds |-> "ready"]
    /\ state = [r \in RunIds |-> 0]
    /\ logs = [r \in RunIds |-> <<>>]
    /\ current = [r \in RunIds |-> None]
    /\ steps = [r \in RunIds |-> 0]
    /\ error = [r \in RunIds |-> NoExc]
    /\ result = [r \in RunIds |-> NoResult]
    /\ trace = [r \in RunIds |-> <<>>]
    /\ awaiting = [r \in RunIds |-> NoFrame]
    /\ NoStore

SpecRegistry == InitRegistry /\ [][NextRegistry]_vars

-----------------------------------------------------------------------------
(* properties *)

\* the edge is unconditional, or its condition holds on the state
EdgeMatches(e, h, st) ==
    \/ ~Truthy(e.condition_key)
    \/ LET c == _compare(_get_from_state(h, st, e.condition_key),
                         e.operator, e.value)
       IN  ~c.raised /\ c.value

\* the positions in g.edges of the edges from `node` that match
MatchingFrom(g, node, h, st) ==
    {i \in 1..Len(g.edges) :
        g.edges[i].source = node /\ EdgeMatches(g.edges[i], h, st)}

Min(S) == CHOOSE x \in S : \A y \in S : x <= y

\* the node a target stands for: the sentinel stands for the end of the run
NextOf(target) == IF target = END THEN None ELSE target

NodesOf(log) == [i \in 1..Len(log) |-> log[i].node]

Last(seq) == seq[Len(seq)]

\* the state object is the one the last step produced and the next node has
\* been chosen on it
Chosen(r) == pc[r] \in {"loop", "returned"} /\ Len(logs[r]) > 0
             /\ steps[r] = Len(logs[r])

\* C1: whenever a run calls choose_next_node (on its graph, the node just
\* executed and the new state), the next node is the target of the earliest
\* edge in graph.edges whose source is that node and that is unconditional or
\* whose condition holds on the state (the end of the run when that target is
\* the sentinel).
C1_FirstMatchWins ==
    [][\A r \in active :
         Len(logs'[r]) = Len(logs[r]) + 1 =>
            LET m == MatchingFrom(graph[r], current[r], heap', state'[r])
            IN  m # {} =>
                    /\ pc'[r] = "loop"
                    /\ current'[r] = NextOf(graph[r].edges[Min(m)].target)]_vars

\* a graph whose edges are an unconditional cycle between its entrypoint and
\* one other node, both bound to step implementations that do not raise
TwoNodeCycle(g) ==
    \E a, b \in {"A", "B"} :
        /\ a # b /\ g.entrypoint = a
        /\ {g.edges[i] : i \in 1..Len(g.edges)} = {Uncond(a, b), Uncond(b, a)}

\* C2: the number of step records never exceeds the step budget; a two-node
\* cycle with no exit condition ends by returning exactly as many records as
\* the budget (10 for a budget of 10) and does not raise; a run that exhausts
\* the budget with a current node left returns the accumulated state and logs
\* without an error.
C2_StepBudget ==
    \A r \in active :
        /\ Len(logs[r]) <= max_steps[r]
        /\ TwoNodeCycle(graph[r]) =>
              /\ pc[r] # "raised"
              /\ pc[r] = "returned" => Len(result[r].logs) = max_steps[r]
              /\ (pc[r] = "returned" /\ max_steps[r] = 10) =>
                     Len(result[r].logs) = 10
        /\ (pc[r] = "returned" /\ current[r] # None) =>
              /\ error[r] = NoExc
              /\ steps[r] = max_steps[r]
              /\ result[r] = [returned |-> TRUE, state |-> state[r], logs |-> logs[r]]
              /\ Len(result[r].logs) = max_steps[r]

\* the cycle run with a budget of 10 has returned its 10 records
C2_Witness ==
    /\ pc[1] = "returned" /\ TwoNodeCycle(graph[1]) /\ max_steps[1] = 10
    /\ current[1] # None /\ Len(result[1].logs) = 10

\* C3: a selected edge whose target is "__end__" ends the run normally: the
\* sentinel never becomes the current node, is never looked up in graph.nodes,
\* never appears as a node of the log, and no NodeNotFound error names it,
\* though it is absent from graph.nodes.
C3_EndSentinel ==
    \A r \in active :
        /\ END \notin DOMAIN graph[r].nodes
        /\ current[r] # END
        /\ \A i \in 1..Len(trace[r]) : trace[r][i] # Ev("lookup", "graph", END)
        /\ \A i \in 1..Len(logs[r]) : logs[r][i].node # END
        /\ error[r].name # END
        /\ Chosen(r) =>
             LET m == MatchingFrom(graph[r], Last(logs[r]).node, heap, state[r])
             IN  (m # {} /\ graph[r].edges[Min(m)].target = END) =>
                     current[r] = None /\ error[r] = NoExc

\* a run has returned after its last node selected an edge to the sentinel
C3_Witness ==
    /\ pc[1] = "returned" /\ Len(result[1].logs) > 0
    /\ LET m == MatchingFrom(graph[1], Last(logs[1]).node, heap, state[1])
       IN  m # {} /\ graph[1].edges[Min(m)].target = END

NoOutgoing(g, node) == \A i \in 1..Len(g.edges) : g.edges[i].source # node

Invocations(r) == {i \in 1..Len(trace[r]) : trace[r][i].ev = "invoke"}

\* C4: when the entrypoint has no outgoing edges, the run invokes at most one
\* node, and a call that returns (with a budget of at least one step) returns
\* after exactly one step with logs of length 1, the entrypoint's record.
C4_NoOutgoingOneStep ==
    \A r \in active : NoOutgoing(graph[r], graph[r].entrypoint) =>
        /\ Len(logs[r]) <= 1 /\ steps[r] <= 1
        /\ Cardinality(Invocations(r)) <= 1
        /\ (pc[r] = "returned" /\ max_steps[r] >= 1) =>
              /\ steps[r] = 1
              /\ NodesOf(result[r].logs) = <<graph[r].entrypoint>>

\* a graph with edges, none from its entrypoint, has returned after one step
\* with budget left
C4_Witness ==
    /\ pc[1] = "returned" /\ graph[1].edges # <<>> /\ max_steps[1] >= 2
    /\ NoOutgoing(graph[1], graph[1].entrypoint)
    /\ Len(result[1].logs) = 1

\* C5: when the node just executed has no outgoing edge, or none of its
\* outgoing edges matches the new state, the run ends normally: no error is
\* raised and the next step is the return of the state and the logs.
C5_NoMatchEndsNormally ==
    [][\A r \in active :
         (/\ Len(logs'[r]) = Len(logs[r]) + 1
          /\ MatchingFrom(graph[r], current[r], heap', state'[r]) = {})
         => (pc'[r] = "loop" /\ current'[r] = None /\ error'[r] = NoExc)]_vars

\* the top-level keys whose entry differs between two state objects: present
\* in one only, or present in both with unequal values
ChangedKeys(hb, before, ha, after) ==
    {k \in DOMAIN before \cup DOMAIN after :
        \/ (k \in DOMAIN before) # (k \in DOMAIN after)
        \/ /\ k \in DOMAIN before /\ k \in DOMAIN after
           /\ ~SnapEq(Snap(hb, before[k]), Snap(ha, after[k]))}

\* C6: the state diff recorded for a step has an entry {before, after} for
\* every top-level key that changed during the node's execution (added,
\* removed or given a different value, an absent side recorded as None) and
\* no entry for any other key.
C6_DiffCoversChanges ==
    [][\A r \in active :
         Len(logs'[r]) = Len(logs[r]) + 1 =>
            LET before == heap[state[r]]
                after  == heap'[state'[r]]
                d      == Last(logs'[r]).state_diff
            IN  /\ DOMAIN d = ChangedKeys(heap, before, heap', after)
                /\ \A k \in DOMAIN d :
                     /\ d[k].before = IF k \in DOMAIN before
                                      THEN Snap(heap, before[k]) ELSE NoneSnap
                     /\ d[k].after = DictGet(after, k)]_vars

\* C7: the graph A -> B -> C -> D -> E, with E back to D while meets_quality
\* == False and to __end__ when True, and D setting meets_quality on its
\* second pass, does not raise and returns exactly the 7 step records
\* A, B, C, D, E, D, E and a final state with meets_quality = True.
C7_LoopEndToEnd ==
    \A r \in active :
        (/\ graph[r] = LoopScenario.graph
         /\ NODE_REGISTRY = LoopScenario.nodeReg
         /\ heap[initial_state[r]] = LoopScenario.heap[1]) =>
            /\ pc[r] # "raised"
            /\ Len(logs[r]) <= 7
            /\ pc[r] = "returned" =>
                  /\ NodesOf(result[r].logs) = <<"A", "B", "C", "D", "E", "D", "E">>
                  /\ DictGet(heap[result[r].state], K("meets_quality")) = BoolV(TRUE)

\* the loop graph's run has returned
C7_Witness ==
    /\ graph[1] = LoopScenario.graph /\ NODE_REGISTRY = LoopScenario.nodeReg
    /\ pc[1] = "returned" /\ Len(result[1].logs) = 7

\* what the call looked up and invoked in this step
Delta(r) == SubSeq(trace'[r], Len(trace[r]) + 1, Len(trace'[r]))

Invoked(evs) == {i \in 1..Len(evs) : evs[i].ev = "invoke"}

\* C8: an iteration whose current node is not a key of graph.nodes raises a
\* KeyError carrying the missing name; no function is invoked, no step record
\* is appended, and the call returns nothing, then or later.
C8_NodeNotFound ==
    [][\A r \in active :
         /\ (trace'[r] # trace[r] /\ current[r] \notin DOMAIN graph[r].nodes) =>
               /\ pc'[r] = "raised"
               /\ error'[r] = Exc("KeyError", "Node not found in graph", current[r])
               /\ Invoked(Delta(r)) = {}
               /\ logs'[r] = logs[r]
               /\ heap' = heap
               /\ result'[r] = NoResult
         /\ (pc[r] = "raised" /\ error[r].msg = "Node not found in graph") =>
               /\ pc'[r] = "raised" /\ result'[r] = NoResult]_vars

\* a run has failed on the missing target of an edge it selected
C8_Witness ==
    /\ pc[1] = "raised" /\ Len(logs[1]) >= 1 /\ result[1] = NoResult
    /\ error[1] = Exc("KeyError", "Node not found in graph", "Z")
    /\ graph[1].entrypoint # "Z"

\* C9: a COMPUTATION node is resolved in the node namespace only, under its
\* name; a TOOL node in the tool namespace only, under its tool_name; a TOOL
\* node without tool_name raises ValueError before any registry lookup or
\* invocation. The function invoked is the one the namespace holds.
C9_Dispatch ==
    [][\A r \in active :
         (trace'[r] # trace[r] /\ current[r] \in DOMAIN graph[r].nodes) =>
            LET cfg    == graph[r].nodes[current[r]]
                looked == <<Ev("lookup", "graph", current[r])>>
                call(reg, key) == IF key \in DOMAIN reg
                                  THEN <<Ev("invoke", "fn", reg[key])>> ELSE <<>>
            IN  IF cfg.type = COMPUTATION
                THEN Delta(r) = looked \o <<Ev("resolve", "node", cfg.name)>>
                                  \o call(NODE_REGISTRY, cfg.name)
                ELSE IF cfg.tool_name \in {None, ""}
                THEN /\ Delta(r) = looked
                     /\ pc'[r] = "raised"
                     /\ error'[r] = Exc("ValueError", "Tool node missing 'tool_name'",
                                        cfg.name)
                ELSE Delta(r) = looked \o <<Ev("resolve", "tool", cfg.tool_name)>>
                                  \o call(TOOL_REGISTRY, cfg.tool_name)]_vars

\* a tool node whose tool_name differs from its name has been executed
C9_Witness ==
    \E i \in 1..Len(trace[1]) \ {1} :
        /\ trace[1][i - 1] = Ev("resolve", "tool", "tool_t")
        /\ trace[1][i] = Ev("invoke", "fn", TOOL_REGISTRY["tool_t"])
        /\ \E j \in 1..Len(logs[1]) : logs[1][j].node = "T"

\* the error an iteration meets up to and in the node's invocation, if any
StepFailure(fn, h, st) ==
    IF Body(fn, h, st).raised THEN Body(fn, h, st).exc ELSE NoExc

ExpectedFailure(g, cur, h, st) ==
    IF cur \notin DOMAIN g.nodes
    THEN Exc("KeyError", "Node not found in graph", cur)
    ELSE LET cfg == g.nodes[cur]
         IN  IF cfg.type = COMPUTATION
             THEN IF cfg.name \notin DOMAIN NODE_REGISTRY
                  THEN Exc("KeyError", "Node function is not registered", cfg.name)
                  ELSE StepFailure(NODE_REGISTRY[cfg.name], h, st)
             ELSE IF cfg.tool_name \in {None, ""}
                  THEN Exc("ValueError", "Tool node missing 'tool_name'", cfg.name)
             ELSE IF cfg.tool_name \notin DOMAIN TOOL_REGISTRY
                  THEN Exc("KeyError", "Tool is not registered", cfg.tool_name)
                  ELSE StepFailure(TOOL_REGISTRY[cfg.tool_name], h, st)

\* C10: a registry miss, a node missing from the graph, a missing tool name
\* and an error raised by a step implementation each leave run_graph as that
\* error: the failing step appends no record and counts no step, the failing
\* node is invoked at most once, and once the call has raised nothing more is
\* looked up, invoked, recorded or returned.
C10_ErrorsFatal ==
    [][\A r \in active :
         /\ (/\ trace'[r] # trace[r]
             /\ ExpectedFailure(graph[r], current[r], heap, state[r]) # NoExc) =>
               /\ pc'[r] = "raised"
               /\ error'[r] = ExpectedFailure(graph[r], current[r], heap, state[r])
               /\ logs'[r] = logs[r]
               /\ steps'[r] = steps[r]
               /\ Cardinality(Invoked(Delta(r))) <= 1
               /\ result'[r] = NoResult
         /\ pc[r] = "raised" =>
               /\ pc'[r] = "raised"
               /\ error'[r] = error[r]
               /\ trace'[r] = trace[r]
               /\ logs'[r] = logs[r]
               /\ result'[r] = NoResult]_vars

\* a step implementation has raised after an earlier step succeeded
C10_Witness ==
    /\ pc[1] = "raised" /\ error[1].type = "RuntimeError"
    /\ Len(logs[1]) >= 1 /\ result[1] = NoResult
    /\ Cardinality(Invocations(1)) = Len(logs[1]) + 1

\* the heap objects a state object is made of: the dict and the dicts nested in it
Reachable(h, o) ==
    LET r1 == {o} \cup RefsOf(h[o])
    IN  r1 \cup UNION {RefsOf(h[x]) : x \in r1}

\* C11: no step of a run (the copy at entry, a node function mutating top-level
\* or nested values in place or replacing the state, a failure, the return)
\* changes the caller's initial state object or a dict nested in it, and the
\* working state shares no object with it.
C11_CallerStateUnchanged ==
    [][\A r \in active :
         /\ \A o \in Reachable(heap, initial_state[r]) :
               o \in DOMAIN heap' /\ heap'[o] = heap[o]
         /\ pc'[r] # "ready" =>
               Reachable(heap', state'[r]) \cap Reachable(heap', initial_state[r]) = {}]_vars

\* a run has failed after its nodes changed a top-level entry and the nested
\* dict of the working state, which now differ from the caller's
C11_Witness ==
    /\ pc[1] = "raised" /\ error[1].type = "RuntimeError"
    /\ K("m") \in DOMAIN heap[initial_state[1]]
    /\ LET mine  == heap[initial_state[1]]
           theirs == heap[state[1]]
       IN  /\ mine[K("m")].t = "ref" /\ theirs[K("m")].t = "ref"
           /\ heap[theirs[K("m")].n] # heap[mine[K("m")].n]
           /\ theirs[K("x")] # mine[K("x")]

\* the rest of a call of run_graph, from its locals to its end, when nothing
\* else runs; fr is the iteration that stands at the await, if one does:
\* [pc, heap, state, logs, error]
RECURSIVE RunFrom(_, _, _, _, _)

\* lines 145-146 and on: the record rec was appended, nx is the next node
RunOn(g, mx, loc, ex, rec, nx) ==
    IF nx.raised
    THEN [pc |-> "raised", heap |-> ex.heap, state |-> ex.state,
          logs |-> Append(loc.logs, rec),
          error |-> Exc("TypeError", "not supported between instances", loc.current)]
    ELSE RunFrom(g, mx, ex.heap,
                 [state |-> ex.state, logs |-> Append(loc.logs, rec),
                  current |-> nx.next, steps |-> loc.steps + 1],
                 NoFrame)

\* lines 131-146 and on: execute_node gave ex
RunAfter(g, mx, loc, cfg, before, ex) ==
    IF ex.raised
    THEN [pc |-> "raised", heap |-> ex.heap, state |-> loc.state,
          logs |-> loc.logs, error |-> ex.exc]
    ELSE RunOn(g, mx, loc, ex,
               StepLog(loc.current, compute_diff(ex.heap, before, ex.state),
                       cfg.description),
               choose_next_node(g, loc.current, ex.heap, ex.state))

RunFrom(g, mx, h, loc, fr) ==
    LET ended(p, e) == [pc |-> p, heap |-> h, state |-> loc.state,
                        logs |-> loc.logs, error |-> e]
    IN  IF fr.on
        THEN RunAfter(g, mx, loc, fr.node_cfg, fr.before,
                      resumed(call_maybe_async(fr.fn, h, loc.state)))
        ELSE IF ~LoopCondition(loc.current, loc.steps, mx)
        THEN ended("returned", NoExc)
        ELSE IF loc.current \notin DOMAIN g.nodes
        THEN ended("raised", Exc("KeyError", "Node not found in graph", loc.current))
        ELSE RunAfter(g, mx, loc, g.nodes[loc.current], SnapDict(h, loc.state),
                      execute_node(g.nodes[loc.current], NODE_REGISTRY,
                                   TOOL_REGISTRY, h, loc.state))

\* the whole call when nothing else runs
RunAlone(g, mx, h, init) ==
    LET c == deepcopy(h, init)
    IN  RunFrom(g, mx, c.heap,
                [state |-> c.id, logs |-> <<>>, current |-> g.entrypoint, steps |-> 0],
                NoFrame)

\* a state and a log by content, whatever the identities of their dicts
StateView(h, st) == SnapDict(h, st)

LogView(h, log) ==
    [i \in 1..Len(log) |->
        [node |-> log[i].node, info |-> log[i].info,
         diff |-> [k \in DOMAIN log[i].state_diff |->
                     [before |-> log[i].state_diff[k].before,
                      after  |-> Snap(h, log[i].state_diff[k].after)]]]]

\* the outcome of a call by content: how it ended, its error, its state and log
Outcome(o) ==
    [pc |-> o.pc, error |-> o.error,
     state |-> IF o.pc = "returned" THEN StateView(o.heap, o.state) ELSE EmptyDict,
     logs  |-> IF o.pc = "returned" THEN LogView(o.heap, o.logs) ELSE <<>>]

\* what run r has produced, or will produce if it runs alone from here, is
\* what it produces when it runs alone from the start
EqualsAlone(r) ==
    LET alone == RunAlone(graph[r], max_steps[r], heap, initial_state[r])
        here  == IF pc[r] = "ready" THEN alone
                 ELSE IF pc[r] \in {"loop", "await"}
                 THEN RunFrom(graph[r], max_steps[r], heap,
                              [state |-> state[r], logs |-> logs[r],
                               current |-> current[r], steps |-> steps[r]],
                              awaiting[r])
                 ELSE IF pc[r] = "returned"
                 THEN [pc |-> "returned", heap |-> heap, state |-> result[r].state,
                       logs |-> result[r].logs, error |-> NoExc]
                 ELSE [pc |-> "raised", heap |-> heap, state |-> state[r],
                       logs |-> logs[r], error |-> error[r]]
    IN  Outcome(here) = Outcome(alone)

\* run r took the step
Stepped(r) == pc'[r] # pc[r] \/ trace'[r] # trace[r]

\* the dicts a run's working state and step records are made of
Owned(h, r) ==
    IF pc[r] = "ready" THEN {}
    ELSE Reachable(h, state[r]) \cup
         {logs[r][i].state_diff[k].after.n :
             <<i, k>> \in {<<i, k>> \in (1..Len(logs[r])) \X {K("x"), K("n"), K("m"), K("y")} :
                              /\ k \in DOMAIN logs[r][i].state_diff
                              /\ logs[r][i].state_diff[k].after.t = "ref"}}

\* C12: when runs of the same or of different graphs, started from the same
\* or from different initial state objects, are interleaved at their node
\* invocations (between two iterations, and inside an iteration while its
\* node function is awaited), a step of one run leaves the working state
\* and the log of every other run untouched, and every run ends with the
\* state and the log it produces when it runs alone.
C12_RunsIsolated ==
    /\ [][\A r \in active : \A q \in active \ {r} :
            Stepped(q) =>
               /\ state'[r] = state[r]
               /\ logs'[r] = logs[r]
               /\ \A o \in Owned(heap, r) : heap'[o] = heap[o]]_vars
    /\ [](\A r \in active : EqualsAlone(r))

\* two runs started from the same object have both ended, one after the
\* other had started, each having changed its own nested dict, the first
\* having awaited a suspending node function
C12_Witness ==
    /\ initial_state[1] = initial_state[2]
    /\ \E i \in Invocations(1) : iscoroutinefunction(trace[1][i].key)
    /\ pc[1] = "returned" /\ pc[2] \in {"returned", "raised"}
    /\ Len(result[1].logs) >= 2
    /\ Len(trace[2]) >= 2
    /\ state[1] # state[2]
    /\ \E i \in 1..Len(logs[1]) : logs[1][i].node = "M"
    /\ \E i \in 1..Len(trace[2]) : trace[2][i].key = "nest"

\* C13: a run's record exists, as pending or running, before run_graph is
\* invoked for it, and once the endpoint or the task that invoked run_graph
\* has finished the record is completed with the returned state and logs when
\* run_graph returned, failed with the error's text when run_graph raised, and
\* in no case still pending or running.
C13_RunLifecycle ==
    \A r \in RunIds :
        /\ r \in active =>
              /\ r \in DOMAIN RUNS
              /\ pc[r] = "ready" => RUNS[r].status \in {"pending", "running"}
        /\ handler[r] \in {"done", "error"} =>
              /\ RUNS[r].status \notin {"pending", "running"}
              /\ pc[r] = "returned" =>
                    /\ RUNS[r].status = "completed"
                    /\ RUNS[r].state = result[r].state
                    /\ RUNS[r].logs = result[r].logs
              /\ pc[r] = "raised" =>
                    /\ RUNS[r].status = "failed"
                    /\ RUNS[r].error = str(error[r])

\* the record of run r as a reader sees it once run_graph has returned
ReturnedView(r) ==
    Serialized(heap, GraphRun(r, "completed", result[r].state, result[r].logs, None))

\* a view of the record of run r is consistent
Consistent(view, r) ==
    /\ view.error # None => view.status = "failed"
    /\ view.status = "completed" => pc[r] = "returned" /\ view = ReturnedView(r)

\* C14: in every state of the run store, and in every response a reader of
\* GET /graph/state/{run_id} gets while runs are in progress, a record's error
\* is set only when its status is failed, and a completed record carries the
\* final state and the full log that run_graph returned.
C14_RecordConsistent ==
    /\ \A r \in DOMAIN RUNS : Consistent(Serialized(heap, RUNS[r]), r)
    /\ seen.status \notin {"", "404"} => Consistent(seen, seen.id)

\* a reader has seen a completed record with its log while the record of
\* another run is failed with its error
C14_Witness ==
    /\ seen.status = "completed" /\ Len(seen.logs) >= 2
    /\ \E q \in DOMAIN RUNS : RUNS[q].status = "failed" /\ RUNS[q].error # None

\* edges of every shape: key unset, empty, top-level, dotted; each operator
\* and none; values of each type
EdgeProbes ==
    { EdgeConfig("A", "hit", key, op, v) :
        key \in {NoneKey, <<>>, K("x"), K("n"), K("y"), <<"m", ".", "q">>},
        op  \in {None, "==", "!=", "<", ">", "<=", ">="},
        v   \in {NoneV, IntV(1), BoolV(TRUE), StrV(1)} }

\* choose_next_node, given this edge alone, selects it
Taken(e, h, st) ==
    choose_next_node(Graph(e.source, Nodes, <<e>>), e.source, h, st)
        = [raised |-> FALSE, next |-> e.target]

\* compare(lookup(state, conditionKey), operator, value) holds
CompareHolds(e, h, st) ==
    LET c == _compare(_get_from_state(h, st, e.condition_key), e.operator, e.value)
    IN  ~c.raised /\ c.value

\* C15: on every state a run works on, an edge whose condition_key is unset
\* is selected whatever its operator and value, and an edge whose
\* condition_key is set is selected if and only if
\* compare(lookup(state, condition_key), operator, value) holds, for each of
\* the six operators.
C15_EdgeMatching ==
    \A r \in active : pc[r] # "ready" =>
        \A e \in EdgeProbes :
            /\ e.condition_key = NoneKey => Taken(e, heap, state[r])
            /\ (e.condition_key # NoneKey /\ e.operator # None) =>
                  (Taken(e, heap, state[r]) <=> CompareHolds(e, heap, state[r]))

\* what a namespace resolves a key to
Resolved(ns, nodeReg, toolReg, key) ==
    IF ns = "node" THEN get_node(nodeReg, key) ELSE get_tool(toolReg, key)

Namespace(op) == IF op \in {"register_node", "get_node"} THEN "node" ELSE "tool"

\* C16: after register(namespace, key, fn), resolve(namespace, key) gives fn,
\* whether or not the key was registered before, and every other key of that
\* namespace and every key of the other namespace resolves as before; a
\* resolve changes nothing and gives what the namespace holds; a key not
\* registered in a namespace fails there with a KeyError carrying the key,
\* whatever the other namespace holds.
C16_Registry ==
    /\ [][LET ns == Namespace(last_call'.op)
              other == IF ns = "node" THEN "tool" ELSE "node"
              now(n, k)  == Resolved(n, NODE_REGISTRY', TOOL_REGISTRY', k)
              was(n, k)  == Resolved(n, NODE_REGISTRY, TOOL_REGISTRY, k)
          IN  IF last_call'.op \in {"register_node", "register_tool"}
              THEN /\ now(ns, last_call'.key) =
                          [raised |-> FALSE, fn |-> last_call'.fn, exc |-> NoExc]
                   /\ \A k \in RegistryKeys \ {last_call'.key} : now(ns, k) = was(ns, k)
                   /\ \A k \in RegistryKeys : now(other, k) = was(other, k)
              ELSE /\ \A n \in {"node", "tool"}, k \in RegistryKeys : now(n, k) = was(n, k)
                   /\ last_call'.fn = was(ns, last_call'.key).fn
                   /\ last_call'.exc = was(ns, last_call'.key).exc]_vars
    /\ [](\A k \in RegistryKeys :
            /\ k \notin DOMAIN NODE_REGISTRY =>
                  /\ get_node(NODE_REGISTRY, k).raised
                  /\ get_node(NODE_REGISTRY, k).exc.type = "KeyError"
                  /\ get_node(NODE_REGISTRY, k).exc.name = k
            /\ k \notin DOMAIN TOOL_REGISTRY =>
                  /\ get_tool(TOOL_REGISTRY, k).raised
                  /\ get_tool(TOOL_REGISTRY, k).exc.type = "KeyError"
                  /\ get_tool(TOOL_REGISTRY, k).exc.name = k)

\* a key overwritten in the node namespace has been resolved there to the new
\* function, while the tool namespace holds another function under that key
\* and nothing under the other key
C16_Witness ==
    /\ last_call = [op |-> "get_node", key |-> "A", fn |-> "count", exc |-> NoExc]
    /\ "A" \in DOMAIN TOOL_REGISTRY /\ TOOL_REGISTRY["A"] = "boom"
    /\ "tool_t" \notin DOMAIN TOOL_REGISTRY
    /\ "tool_t" \in DOMAIN NODE_REGISTRY

\* the nodes whose invocation a run has started, in order
Looked(r) ==
    SelectSeq(trace[r], LAMBDA ev : ev.ev = "lookup")

\* C17: while a run is in its loop and when it has returned, the log has one
\* record per completed node invocation and per counted step, in execution
\* order; a step appends at most one record, and a record, once appended, is
\* never removed and its content (node, info, and the before and after of
\* each diff entry) never changes.
C17_LogAppendOnly ==
    /\ [](\A r \in active : pc[r] \in {"loop", "returned"} =>
            /\ Len(logs[r]) = steps[r]
            /\ Len(logs[r]) = Cardinality(Invocations(r))
            /\ NodesOf(logs[r]) = [i \in 1..Len(logs[r]) |-> Looked(r)[i].key])
    /\ [][\A r \in active :
            /\ Len(logs'[r]) \in {Len(logs[r]), Len(logs[r]) + 1}
            /\ \A i \in 1..Len(logs[r]) :
                  LogView(heap', logs'[r])[i] = LogView(heap, logs[r])[i]]_vars

\* the function invoked in this step, when the step invoked one
InvokedFn(r) == Delta(r)[Len(Delta(r))].key

\* the step invokes a function and is left waiting for it
Waits(r) == pc[r] = "loop" /\ pc'[r] = "await"

\* the step takes what an invocation gave: the function ran within the step,
\* or the step ends the wait for it
Completes(r) ==
    \/ pc[r] = "await" /\ pc'[r] # "await"
    \/ pc[r] = "loop" /\ pc'[r] # "await" /\ Invoked(Delta(r)) # {}

CompletedFn(r) == IF pc[r] = "await" THEN awaiting[r].fn ELSE InvokedFn(r)

\* the copy of the state taken ahead of the invocation
BeforeOf(r) == IF pc[r] = "await" THEN awaiting[r].before ELSE SnapDict(heap, state[r])

\* C18: when a run invokes a registered function, plain or suspending, and the
\* function does not raise, the working state becomes the dict the function
\* returned when it returned one, and stays the very dict it was given, with
\* the function's in-place changes, when it returned None; the record's diff,
\* the choice of the next node and the next invocation use that state. While
\* a suspending function is awaited the run's state, log and step count are
\* as they were before the invocation.
C18_InvocationAdapter ==
    [][\A r \in active :
         /\ Waits(r) =>
               /\ Invoked(Delta(r)) # {}
               /\ awaiting'[r].fn = InvokedFn(r)
               /\ awaiting'[r].before = SnapDict(heap, state[r])
               /\ <<heap, state[r], logs[r], current[r], steps[r]>>' =
                      <<heap, state[r], logs[r], current[r], steps[r]>>
         /\ (Completes(r) /\ ~Body(CompletedFn(r), heap, state[r]).raised) =>
               LET out == Body(CompletedFn(r), heap, state[r])
                   nx  == choose_next_node(graph[r], current[r], heap', state'[r])
               IN  /\ out.ret = NoneV => state'[r] = state[r]
                   /\ out.ret # NoneV => state'[r] = out.ret.n
                   /\ heap' = out.heap
                   /\ Len(logs'[r]) = Len(logs[r]) + 1
                   /\ Last(logs'[r]).state_diff =
                         compute_diff(heap', BeforeOf(r), state'[r])
                   /\ ~nx.raised => current'[r] = nx.next]_vars

\* a suspending function that returns None, a plain one that returns the
\* coroutine of one returning the state, and a suspending one that returns a
\* new dict have run, and the next node has run on that new dict
C18_Witness ==
    /\ Len(logs[1]) >= 4
    /\ SubSeq(NodesOf(logs[1]), 1, 4) = <<"P", "D", "F", "M">>
    /\ iscoroutinefunction(NODE_REGISTRY["P"]) /\ iscoroutine(NODE_REGISTRY["D"])
    /\ iscoroutinefunction(NODE_REGISTRY["F"])
    /\ state[1] \notin Reachable(heap, initial_state[1])
    /\ K("m") \in DOMAIN heap[state[1]]

\* keys of one, two and three parts, through dicts, through values that are
\* not dicts and through missing keys; empty parts
LookupKeys ==
    { K("x"), K("n"), K("m"), K("zz"), <<>>,
      <<"m", ".", "q">>, <<"m", ".", "zz">>, <<"x", ".", "q">>, <<"zz", ".", "q">>,
      <<"m", ".", "q", ".", "z">>, <<"m", ".", "zz", ".", "q">>,
      <<"m", ".">>, <<".", "m">>, <<"m", ".", ".", "q">> }

\* the positions of "." in a key
DotsOf(key) == {i \in 1..Len(key) : key[i] = "."}

\* the keys k1 .. kn of "k1.k2...kn": what lies between consecutive dots
PartsOf(key) ==
    LET ds == DotsOf(key)
        n  == Cardinality(ds) + 1
        bound(j) == IF j = 0 THEN 0
                    ELSE IF j = n THEN Len(key) + 1
                    ELSE CHOOSE i \in ds : Cardinality({d \in ds : d < i}) = j - 1
    IN  [j \in 1..n |-> SubSeq(key, bound(j - 1) + 1, bound(j) - 1)]

\* one key followed from a value: the entry when the value is a map that has
\* the key, absent otherwise
Get(h, v, k) ==
    IF v.t = "ref" /\ k \in DOMAIN h[v.n] THEN h[v.n][k] ELSE NoneV

\* the value reached by following up to three keys from the state
Follow(h, st, ks) ==
    CASE Len(ks) = 1 -> Get(h, RefV(st), ks[1])
      [] Len(ks) = 2 -> Get(h, Get(h, RefV(st), ks[1]), ks[2])
      [] Len(ks) = 3 -> Get(h, Get(h, Get(h, RefV(st), ks[1]), ks[2]), ks[3])

\* {"a": {"b": 5}} and {"a": 1}
HeapAB == (1 :> (K("a") :> RefV(2))) @@ (2 :> (K("b") :> IntV(5)))

HeapA1 == (1 :> (K("a") :> IntV(1)))

\* C19: on every state a run works on and every dotted key, the lookup yields
\* the value reached by following the key's parts through the nested maps,
\* and the absent marker (None) when a part is missing or the value reached
\* before the last part is not a map; it yields a value in every case.
\* lookup({a: {b: 5}}, "a.b") is 5 and lookup({a: 1}, "a.b") is absent.
C19_DottedLookup ==
    /\ \A r \in active : pc[r] # "ready" =>
          \A key \in LookupKeys :
             _get_from_state(heap, state[r], key) = Follow(heap, state[r], PartsOf(key))
    /\ _get_from_state(HeapAB, 1, <<"a", ".", "b">>) = IntV(5)
    /\ _get_from_state(HeapA1, 1, <<"a", ".", "b">>) = NoneV

\* a run has taken the edge whose condition looks up "m.q" through the nested
\* dict, on a state where "x" is a number, so that "x.q" is absent
C19_Witness ==
    /\ pc[1] = "raised" /\ error[1] = Exc("KeyError", "Node not found in graph", "Z")
    /\ \E i \in 1..Len(graph[1].edges) :
          /\ graph[1].edges[i].condition_key = <<"m", ".", "q">>
          /\ graph[1].edges[i].target = "Z"
    /\ _get_from_state(heap, state[1], <<"m", ".", "q">>).t = "int"
    /\ heap[state[1]][K("x")].t = "int"
    /\ _get_from_state(heap, state[1], <<"x", ".", "q">>) = NoneV

\* the run has left run_graph, by return or by an exception
Finished(r) == pc[r] \in {"returned", "raised"}

\* C20: every call of run_graph, on every graph (cycles that never exit
\* included), initial state and step budget, eventually finishes, by
\* returning or by raising, and has invoked at most max_steps nodes at every
\* moment, given that every node invocation returns or raises.
C20_Terminates ==
    /\ <>(\A r \in active : Finished(r))
    /\ [](\A r \in active : Cardinality(Invocations(r)) <= max_steps[r])

\* a cycle with no exit has been run to the end of its budget: the call has
\* returned with a node still to run, after max_steps invocations
C20_Witness ==
    /\ pc[1] = "returned" /\ current[1] # None
    /\ TwoNodeCycle(graph[1]) /\ max_steps[1] >= 3
    /\ Cardinality(Invocations(1)) = max_steps[1]

-----------------------------------------------------------------------------
(* the code review workflow *)

\* run r is a run of the template graph on the built-in nodes
InReview(r) ==
    /\ graph[r] = create_code_review_template_graph
    /\ NODE_REGISTRY = BuiltinNodes
    /\ TOOL_REGISTRY = BuiltinTools

\* the node of the i-th step record: the three analysis nodes, then
\* suggest_improvements and evaluate_quality in turn
ReviewOrder(i) ==
    IF i = 1 THEN "extract_functions"
    ELSE IF i = 2 THEN "check_complexity"
    ELSE IF i = 3 THEN "detect_smells"
    ELSE IF i % 2 = 0 THEN "suggest_improvements"
    ELSE "evaluate_quality"

\* check_complexity has run: metrics.quality_score is set
Scored(r) == pc[r] \in {"loop", "returned"} /\ Len(logs[r]) >= 2

\* metrics.quality_score of the run's state
QualityScore(r) == heap[heap[state[r]][K("metrics")].n][K("quality_score")].n

\* the threshold evaluate_quality compares it with
Threshold(r) ==
    float(dict_get(heap[state[r]], K("threshold"), FloatV(FDiv(8, 10)))).value

\* C21: in a run of the built-in code_review_agent graph the step records are
\* extract_functions, check_complexity, detect_smells once each, then
\* suggest_improvements and evaluate_quality in turn; after every
\* evaluate_quality exactly one of its two edges matches, the one back to
\* suggest_improvements when quality_score < threshold and the one to __end__
\* when quality_score >= threshold; quality_score never decreases from one
\* step to the next; and a run that returns has metrics.quality_score >=
\* threshold and meets_quality = True.
C21_ReviewLoop ==
    /\ [](\A r \in active : InReview(r) =>
            /\ \A i \in 1..Len(logs[r]) : logs[r][i].node = ReviewOrder(i)
            /\ (Chosen(r) /\ Last(logs[r]).node = "evaluate_quality") =>
                  LET m   == MatchingFrom(graph[r], "evaluate_quality", heap, state[r])
                      met == FGeq(QualityScore(r), Threshold(r))
                  IN  /\ Cardinality(m) = 1
                      /\ graph[r].edges[Min(m)].target =
                            IF met THEN END ELSE "suggest_improvements"
            /\ pc[r] = "returned" =>
                  /\ DictGet(heap[result[r].state], K("meets_quality")) = BoolV(TRUE)
                  /\ FGeq(QualityScore(r), Threshold(r)))
    /\ [][\A r \in active :
             (InReview(r) /\ Scored(r) /\ Scored(r)') =>
                 FGeq(QualityScore(r)', QualityScore(r))]_vars

-----------------------------------------------------------------------------
(* the log as a path of the graph *)

\* the edge matches the state: its condition_key is unset, or it is set and
\* compare(lookup(state, condition_key), operator, value) holds
Matches(e, h, st) == e.condition_key = NoneKey \/ CompareHolds(e, h, st)

\* the positions in g.edges of the matching edges from `node`
MatchingEdges(g, node, h, st) ==
    {i \in 1..Len(g.edges) : g.edges[i].source = node /\ Matches(g.edges[i], h, st)}

\* C22: the log of a run is a path of its graph: the first record's node is
\* graph.entrypoint, every recorded node is a key of graph.nodes, and when a
\* record is appended after another the first edge of graph.edges that leaves
\* the earlier record's node and matches the state that step produced has
\* the new record's node as its target; no step of a run changes the graph.
C22_LogIsPath ==
    /\ [](\A r \in active :
            /\ Len(logs[r]) > 0 => logs[r][1].node = graph[r].entrypoint
            /\ \A i \in 1..Len(logs[r]) : logs[r][i].node \in DOMAIN graph[r].nodes)
    /\ [][\A r \in active :
            /\ graph'[r] = graph[r]
            /\ (Len(logs[r]) > 0 /\ Len(logs'[r]) = Len(logs[r]) + 1) =>
                  LET m == MatchingEdges(graph[r], Last(logs[r]).node, heap, state[r])
                  IN  /\ m # {}
                      /\ graph[r].edges[Min(m)].target = Last(logs'[r]).node]_vars

====
